---- MODULE Spec2Model ----
(***************************************************************************)
(* Model of rust-css: the computed-style adapter (computed.rs), the        *)
(* cascade/inheritance resolver (complete.rs), the colors and their        *)
(* parser (color.rs) and the lengths (units.rs).                           *)
(*                                                                         *)
(* A style tree is resolved root-first: new_root wraps the root's          *)
(* SelectResults, new_from_parent composes a child's SelectResults against *)
(* the parent's CompleteSelectResults.  The getters of CompleteStyle read  *)
(* the stored native style through convert_net_* and strip.                *)
(***************************************************************************)
EXTENDS Integers, Sequences, FiniteSets, TLC

\* ------------------------------------------------------------------------
\* Bounds
\* ------------------------------------------------------------------------

\* number of nodes of the style tree
MaxNodes == 3

Nodes == 1..MaxNodes

Root == 1

\* ------------------------------------------------------------------------
\* Numbers.  css_fixed is a fixed-point integer; a float is kept as an exact
\* fraction num/den.
\* ------------------------------------------------------------------------

\* number of css_fixed steps per unit (10 fractional bits)
CssFixedOne == 1024

RECURSIVE Gcd(_, _)
Gcd(a, b) == IF b = 0 THEN a ELSE Gcd(b, a % b)

\* the float num/den, in lowest terms
Float(num, den) == LET g == Gcd(num, den) IN [num |-> num \div g, den |-> den \div g]

css_fixed_to_float(f) == Float(f, CssFixedOne)

\* the cast to css_fixed truncates
float_to_css_fixed(x) == (x.num * CssFixedOne) \div x.den

FloatMul(a, b) == Float(a.num * b.num, a.den * b.den)

FloatDiv(a, k) == Float(a.num, a.den * k)

\* the css_fixed of a whole number
Fixed(n) == n * CssFixedOne

FloatAdd(a, b) == Float(a.num * b.den + b.num * a.den, a.den * b.den)

FloatSub(a, b) == Float(a.num * b.den - b.num * a.den, a.den * b.den)

FloatLe(a, b) == a.num * b.den <= b.num * a.den

FloatLt(a, b) == a.num * b.den < b.num * a.den

\* the float of a whole number
Whole(n) == Float(n, 1)

\* f64::round: to the nearest whole number, a half away from zero
round(x) ==
    IF x.num >= 0 THEN (2 * x.num + x.den) \div (2 * x.den)
    ELSE 0 - ((2 * (0 - x.num) + x.den) \div (2 * x.den))

\* ------------------------------------------------------------------------
\* Failures (fail! unwinds the task)
\* ------------------------------------------------------------------------

Fail(msg) == [tag |-> "Fail", msg |-> msg]

IsFail(x) == x.tag = "Fail"

unimpl(what) == [tag |-> "Fail", msg |-> "css unimplemented", what |-> what]

\* ------------------------------------------------------------------------
\* values.rs, units.rs, color.rs: the typed values
\* ------------------------------------------------------------------------

Inherit == [tag |-> "Inherit"]

Specified(v) == [tag |-> "Specified", v |-> v]

Px(x) == [tag |-> "Px", f |-> x]

Em(x) == [tag |-> "Em", f |-> x]

Pt(x) == [tag |-> "Pt", f |-> x]

Left(v) == [tag |-> "Left", v |-> v]

Right(v) == [tag |-> "Right", v |-> v]

rgba(r, g, b, a) == [tag |-> "Color", red |-> r, green |-> g, blue |-> b, alpha |-> a]

\* a payload-free variant of a typed enumeration
K(name) == [tag |-> name]

\* a variant holding a Length
WithLength(name, len) == [tag |-> name, len |-> len]

\* a variant holding a float
WithFloat(name, x) == [tag |-> name, f |-> x]

\* ------------------------------------------------------------------------
\* computed.rs: the conversion of the native hints
\* ------------------------------------------------------------------------

\* a native value without payload
N(name) == [tag |-> name]

\* a native dimension: a unit tag and its css_fixed magnitude
Unit(name, fixed) == [tag |-> name, v |-> fixed]

convert_net_color(color) == rgba(color.r, color.g, color.b, Float(color.a, 255))

convert_net_color_value(color) ==
    CASE color.tag = "CssColorInherit" -> Inherit
      [] color.tag = "CssColorColor" -> Specified(convert_net_color(color.c))

\* convert_net_unit_to_length_or_percent taking a point for a pixel
convert_net_unit_to_length_or_percent_pt_as_px(unit) ==
    CASE unit.tag = "CssUnitPx" -> Left(Px(css_fixed_to_float(unit.v)))
      [] unit.tag = "CssUnitEm" -> Left(Em(css_fixed_to_float(unit.v)))
      [] unit.tag = "CssUnitPt" -> Left(Px(css_fixed_to_float(unit.v)))
      [] unit.tag = "CssUnitPct" -> Right(css_fixed_to_float(unit.v))
      [] OTHER -> unimpl("unit")

convert_net_unit_to_length_or_percent(unit) ==
    CASE unit.tag = "CssUnitPx" -> Left(Px(css_fixed_to_float(unit.v)))
      [] unit.tag = "CssUnitEm" -> Left(Em(css_fixed_to_float(unit.v)))
      [] unit.tag = "CssUnitPt" -> Left(Pt(css_fixed_to_float(unit.v)))
      [] unit.tag = "CssUnitPct" -> Right(css_fixed_to_float(unit.v))
      [] OTHER -> unimpl("unit")

convert_net_unit_to_length(unit) ==
    LET e == convert_net_unit_to_length_or_percent(unit)
    IN  CASE e.tag = "Left" -> e.v
          [] e.tag = "Right" -> Fail("unexpected percentage unit")
          [] OTHER -> e

\* match length { Left(abs) => Specified(L(abs)), Right(percent) => Specified(P(percent)) }
LengthOrPercent(value, lengthVariant, percentVariant) ==
    LET e == convert_net_unit_to_length_or_percent(value)
    IN  CASE e.tag = "Left" -> Specified(WithLength(lengthVariant, e.v))
          [] e.tag = "Right" -> Specified(WithFloat(percentVariant, e.v))
          [] OTHER -> e

convert_net_border_width(width) ==
    CASE width.tag = "CssBorderWidthInherit" -> Inherit
      [] width.tag = "CssBorderWidthThin" -> Specified(K("CSSBorderWidthThin"))
      [] width.tag = "CssBorderWidthMedium" -> Specified(K("CSSBorderWidthMedium"))
      [] width.tag = "CssBorderWidthThick" -> Specified(K("CSSBorderWidthThick"))
      [] width.tag = "CssBorderWidthWidth" ->
            LET l == convert_net_unit_to_length(width.unit)
            IN  IF IsFail(l) THEN l ELSE Specified(WithLength("CSSBorderWidthLength", l))

convert_net_margin(margin) ==
    CASE margin.tag = "CssMarginInherit" -> Inherit
      [] margin.tag = "CssMarginSet" ->
            LengthOrPercent(margin.unit, "CSSMarginLength", "CSSMarginPercentage")
      [] margin.tag = "CssMarginAuto" -> Specified(K("CSSMarginAuto"))

convert_net_padding(padding) ==
    CASE padding.tag = "CssPaddingInherit" -> Inherit
      [] padding.tag = "CssPaddingSet" ->
            LengthOrPercent(padding.unit, "CSSPaddingLength", "CSSPaddingPercentage")

convert_net_width_value(value) ==
    CASE value.tag = "CssWidthInherit" -> Inherit
      [] value.tag = "CssWidthSet" ->
            LengthOrPercent(value.unit, "CSSWidthLength", "CSSWidthPercentage")
      [] value.tag = "CssWidthAuto" -> Specified(K("CSSWidthAuto"))

convert_net_height_value(value) ==
    CASE value.tag = "CssHeightInherit" -> Inherit
      [] value.tag = "CssHeightSet" ->
            LengthOrPercent(value.unit, "CSSHeightLength", "CSSHeightPercentage")
      [] value.tag = "CssHeightAuto" -> Specified(K("CSSHeightAuto"))

\* convert_net_display_value putting block in the place of run-in
convert_net_display_value_run_in_block(value) ==
    CASE value.tag = "CssDisplayInherit" -> Inherit
      [] value.tag = "CssDisplayInline" -> Specified(K("CSSDisplayInline"))
      [] value.tag = "CssDisplayBlock" -> Specified(K("CSSDisplayBlock"))
      [] value.tag = "CssDisplayListItem" -> Specified(K("CSSDisplayListItem"))
      [] value.tag = "CssDisplayRunIn" -> Specified(K("CSSDisplayBlock"))
      [] value.tag = "CssDisplayInlineBlock" -> Specified(K("CSSDisplayInlineBlock"))
      [] value.tag = "CssDisplayTable" -> Specified(K("CSSDisplayTable"))
      [] value.tag = "CssDisplayInlineTable" -> Specified(K("CSSDisplayInlineTable"))
      [] value.tag = "CssDisplayTableRowGroup" -> Specified(K("CSSDisplayTableRowGroup"))
      [] value.tag = "CssDisplayTableHeaderGroup" -> Specified(K("CSSDisplayTableHeaderGroup"))
      [] value.tag = "CssDisplayTableFooterGroup" -> Specified(K("CSSDisplayTableFooterGroup"))
      [] value.tag = "CssDisplayTableRow" -> Specified(K("CSSDisplayTableRow"))
      [] value.tag = "CssDisplayTableColumnGroup" -> Specified(K("CSSDisplayTableColumnGroup"))
      [] value.tag = "CssDisplayTableColumn" -> Specified(K("CSSDisplayTableColumn"))
      [] value.tag = "CssDisplayTableCell" -> Specified(K("CSSDisplayTableCell"))
      [] value.tag = "CssDisplayTableCaption" -> Specified(K("CSSDisplayTableCaption"))
      [] value.tag = "CssDisplayNone" -> Specified(K("CSSDisplayNone"))

convert_net_display_value(value) ==
    CASE value.tag = "CssDisplayInherit" -> Inherit
      [] value.tag = "CssDisplayInline" -> Specified(K("CSSDisplayInline"))
      [] value.tag = "CssDisplayBlock" -> Specified(K("CSSDisplayBlock"))
      [] value.tag = "CssDisplayListItem" -> Specified(K("CSSDisplayListItem"))
      [] value.tag = "CssDisplayRunIn" -> unimpl("display: run-in")
      [] value.tag = "CssDisplayInlineBlock" -> Specified(K("CSSDisplayInlineBlock"))
      [] value.tag = "CssDisplayTable" -> Specified(K("CSSDisplayTable"))
      [] value.tag = "CssDisplayInlineTable" -> Specified(K("CSSDisplayInlineTable"))
      [] value.tag = "CssDisplayTableRowGroup" -> Specified(K("CSSDisplayTableRowGroup"))
      [] value.tag = "CssDisplayTableHeaderGroup" -> Specified(K("CSSDisplayTableHeaderGroup"))
      [] value.tag = "CssDisplayTableFooterGroup" -> Specified(K("CSSDisplayTableFooterGroup"))
      [] value.tag = "CssDisplayTableRow" -> Specified(K("CSSDisplayTableRow"))
      [] value.tag = "CssDisplayTableColumnGroup" -> Specified(K("CSSDisplayTableColumnGroup"))
      [] value.tag = "CssDisplayTableColumn" -> Specified(K("CSSDisplayTableColumn"))
      [] value.tag = "CssDisplayTableCell" -> Specified(K("CSSDisplayTableCell"))
      [] value.tag = "CssDisplayTableCaption" -> Specified(K("CSSDisplayTableCaption"))
      [] value.tag = "CssDisplayNone" -> Specified(K("CSSDisplayNone"))

\* convert_net_float_value taking the keyword none for an unset value
convert_net_float_value_none_unset(value) ==
    CASE value.tag = "CssFloatInherit" -> Inherit
      [] value.tag = "CssFloatLeft" -> Specified(K("CSSFloatLeft"))
      [] value.tag = "CssFloatRight" -> Specified(K("CSSFloatRight"))
      [] value.tag = "CssFloatNone" -> Inherit

convert_net_float_value(value) ==
    CASE value.tag = "CssFloatInherit" -> Inherit
      [] value.tag = "CssFloatLeft" -> Specified(K("CSSFloatLeft"))
      [] value.tag = "CssFloatRight" -> Specified(K("CSSFloatRight"))
      [] value.tag = "CssFloatNone" -> Specified(K("CSSFloatNone"))

\* convert_net_position_value with fixed taken for absolute
convert_net_position_value_fixed_absolute(value) ==
    CASE value.tag = "CssPositionInherit" -> Inherit
      [] value.tag = "CssPositionStatic" -> Specified(K("CSSPositionStatic"))
      [] value.tag = "CssPositionRelative" -> Specified(K("CSSPositionRelative"))
      [] value.tag = "CssPositionAbsolute" -> Specified(K("CSSPositionAbsolute"))
      [] value.tag = "CssPositionFixed" -> Specified(K("CSSPositionAbsolute"))

convert_net_position_value(value) ==
    CASE value.tag = "CssPositionInherit" -> Inherit
      [] value.tag = "CssPositionStatic" -> Specified(K("CSSPositionStatic"))
      [] value.tag = "CssPositionRelative" -> Specified(K("CSSPositionRelative"))
      [] value.tag = "CssPositionAbsolute" -> Specified(K("CSSPositionAbsolute"))
      [] value.tag = "CssPositionFixed" -> Specified(K("CSSPositionFixed"))

\* the map of the names walked from the last name to the first
FamilyNamesReversed(names) ==
    [i \in 1..Len(names) |->
        [tag |-> "CSSFontFamilyFamilyName", name |-> names[Len(names) + 1 - i]]]

\* names.map(|n| CSSFontFamilyFamilyName(n.to_str()))
FamilyNames(names) ==
    [i \in 1..Len(names) |-> [tag |-> "CSSFontFamilyFamilyName", name |-> names[i]]]

GenericFamily(g) == <<[tag |-> "CSSFontFamilyGenericFamily", family |-> g]>>

convert_net_font_family_value(value) ==
    CASE value.tag = "CssFontFamilyInherit" -> Inherit
      [] value.tag = "CssFontFamilySerif" -> Specified(GenericFamily("Serif"))
      [] value.tag = "CssFontFamilySansSerif" -> Specified(GenericFamily("SansSerif"))
      [] value.tag = "CssFontFamilyCursive" -> Specified(GenericFamily("Cursive"))
      [] value.tag = "CssFontFamilyFantasy" -> Specified(GenericFamily("Fantasy"))
      [] value.tag = "CssFontFamilyMonospace" -> Specified(GenericFamily("Monospace"))
      [] value.tag = "CssFontFamilyValue" -> Specified(FamilyNames(value.names))

AbsoluteSize(s) == [tag |-> "CSSFontSizeAbsoluteSize", size |-> s]

RelativeSize(s) == [tag |-> "CSSFontSizeRelativeSize", size |-> s]

convert_net_font_size_value(value) ==
    CASE value.tag = "CssFontSizeInherit" -> Inherit
      [] value.tag = "CssFontSizeXXSmall" -> Specified(AbsoluteSize("XXSmall"))
      [] value.tag = "CssFontSizeXSmall" -> Specified(AbsoluteSize("XSmall"))
      [] value.tag = "CssFontSizeSmall" -> Specified(AbsoluteSize("Small"))
      [] value.tag = "CssFontSizeMedium" -> Specified(AbsoluteSize("Medium"))
      [] value.tag = "CssFontSizeLarge" -> Specified(AbsoluteSize("Large"))
      [] value.tag = "CssFontSizeXLarge" -> Specified(AbsoluteSize("XLarge"))
      [] value.tag = "CssFontSizeXXLarge" -> Specified(AbsoluteSize("XXLarge"))
      [] value.tag = "CssFontSizeLarger" -> Specified(RelativeSize("Larger"))
      [] value.tag = "CssFontSizeSmaller" -> Specified(RelativeSize("Smaller"))
      [] value.tag = "CssFontSizeDimension" ->
            LengthOrPercent(value.unit, "CSSFontSizeLength", "CSSFontSizePercentage")

convert_net_font_style_value(value) ==
    CASE value.tag = "CssFontStyleInherit" -> Inherit
      [] value.tag = "CssFontStyleNormal" -> Specified(K("CSSFontStyleNormal"))
      [] value.tag = "CssFontStyleItalic" -> Specified(K("CSSFontStyleItalic"))
      [] value.tag = "CssFontStyleOblique" -> Specified(K("CSSFontStyleOblique"))

convert_net_font_weight_value(value) ==
    CASE value.tag = "CssFontWeightInherit" -> Inherit
      [] value.tag = "CssFontWeightNormal" -> Specified(K("CSSFontWeightNormal"))
      [] value.tag = "CssFontWeightBold" -> Specified(K("CSSFontWeightBold"))
      [] value.tag = "CssFontWeightBolder" -> Specified(K("CSSFontWeightBolder"))
      [] value.tag = "CssFontWeightLighter" -> Specified(K("CSSFontWeightLighter"))
      [] value.tag = "CssFontWeight100" -> Specified(K("CSSFontWeight100"))
      [] value.tag = "CssFontWeight200" -> Specified(K("CSSFontWeight200"))
      [] value.tag = "CssFontWeight300" -> Specified(K("CSSFontWeight300"))
      [] value.tag = "CssFontWeight400" -> Specified(K("CSSFontWeight400"))
      [] value.tag = "CssFontWeight500" -> Specified(K("CSSFontWeight500"))
      [] value.tag = "CssFontWeight600" -> Specified(K("CSSFontWeight600"))
      [] value.tag = "CssFontWeight700" -> Specified(K("CSSFontWeight700"))
      [] value.tag = "CssFontWeight800" -> Specified(K("CSSFontWeight800"))
      [] value.tag = "CssFontWeight900" -> Specified(K("CSSFontWeight900"))

convert_net_text_align_value(value) ==
    CASE value.tag = "CssTextAlignInherit" -> Inherit
      [] value.tag = "CssTextAlignInheritIfNonMagic" -> unimpl("inherit if non-magic? wtf?")
      [] value.tag = "CssTextAlignLeft" -> Specified(K("CSSTextAlignLeft"))
      [] value.tag = "CssTextAlignRight" -> Specified(K("CSSTextAlignRight"))
      [] value.tag = "CssTextAlignCenter" -> Specified(K("CSSTextAlignCenter"))
      [] value.tag = "CssTextAlignJustify" -> Specified(K("CSSTextAlignJustify"))
      [] value.tag = "CssTextAlignDefault" -> Specified(K("CSSTextAlignLeft"))
      [] value.tag = "CssTextAlignLibcssLeft" -> unimpl("text-align libcss left")
      [] value.tag = "CssTextAlignLibcssCenter" -> unimpl("text-align libcss center")
      [] value.tag = "CssTextAlignLibcssRight" -> unimpl("text-align libcss right")

convert_net_text_decoration_value(value) ==
    CASE value.tag = "CssTextDecorationInherit" -> Inherit
      [] value.tag = "CssTextDecorationNone" -> Specified(K("CSSTextDecorationNone"))
      [] value.tag = "CssTextDecorationBlink" -> Specified(K("CSSTextDecorationBlink"))
      [] value.tag = "CssTextDecorationLineThrough" -> Specified(K("CSSTextDecorationLineThrough"))
      [] value.tag = "CssTextDecorationOverline" -> Specified(K("CSSTextDecorationOverline"))
      [] value.tag = "CssTextDecorationUnderline" -> Specified(K("CSSTextDecorationUnderline"))

convert_net_line_height_value(value) ==
    CASE value.tag = "CssLineHeightInherit" -> Inherit
      [] value.tag = "CssLineHeightNumber" ->
            Specified(WithFloat("CSSLineHeightNumber", css_fixed_to_float(value.n)))
      [] value.tag = "CssLineHeightDimension" ->
            LengthOrPercent(value.unit, "CSSLineHeightLength", "CSSLineHeightPercentage")
      [] value.tag = "CssLineHeightNormal" -> Specified(K("CSSLineHeightNormal"))

\* the getters of ComputedStyle: one conversion per property family
ConvertNet(family, value) ==
    CASE family = "color" -> convert_net_color_value(value)
      [] family = "border_width" -> convert_net_border_width(value)
      [] family = "margin" -> convert_net_margin(value)
      [] family = "padding" -> convert_net_padding(value)
      [] family = "width" -> convert_net_width_value(value)
      [] family = "height" -> convert_net_height_value(value)
      [] family = "display" -> convert_net_display_value(value)
      [] family = "float" -> convert_net_float_value(value)
      [] family = "position" -> convert_net_position_value(value)
      [] family = "font_family" -> convert_net_font_family_value(value)
      [] family = "font_size" -> convert_net_font_size_value(value)
      [] family = "font_style" -> convert_net_font_style_value(value)
      [] family = "font_weight" -> convert_net_font_weight_value(value)
      [] family = "text_align" -> convert_net_text_align_value(value)
      [] family = "text_decoration" -> convert_net_text_decoration_value(value)
      [] family = "line_height" -> convert_net_line_height_value(value)

\* ------------------------------------------------------------------------
\* The native hints the selector-matching collaborator can hand over
\* ------------------------------------------------------------------------

\* css_fixed magnitudes of the dimensions fed to the adapter
Magnitudes == {Fixed(10), Fixed(150)}

UnitTags == {"CssUnitPx", "CssUnitEm", "CssUnitPt", "CssUnitPct", "CssUnitEx", "CssUnitCm"}

Units == {Unit(u, m) : u \in UnitTags, m \in Magnitudes}

Tagged(tags) == {N(t) : t \in tags}

WithUnit(tag) == {[tag |-> tag, unit |-> u] : u \in Units}

NetColors == {[r |-> 0, g |-> 0, b |-> 255, a |-> 255], [r |-> 255, g |-> 0, b |-> 0, a |-> 128]}

FamilyNameLists == {<<"Gentium">>, <<"Wombat", "Jones">>, <<"Jones", "Wombat", "Jones">>}

NativeValues(family) ==
    CASE family = "color" ->
            Tagged({"CssColorInherit"}) \cup {[tag |-> "CssColorColor", c |-> c] : c \in NetColors}
      [] family = "border_width" ->
            Tagged({"CssBorderWidthInherit", "CssBorderWidthThin", "CssBorderWidthMedium",
                    "CssBorderWidthThick"}) \cup WithUnit("CssBorderWidthWidth")
      [] family = "margin" ->
            Tagged({"CssMarginInherit", "CssMarginAuto"}) \cup WithUnit("CssMarginSet")
      [] family = "padding" ->
            Tagged({"CssPaddingInherit"}) \cup WithUnit("CssPaddingSet")
      [] family = "width" ->
            Tagged({"CssWidthInherit", "CssWidthAuto"}) \cup WithUnit("CssWidthSet")
      [] family = "height" ->
            Tagged({"CssHeightInherit", "CssHeightAuto"}) \cup WithUnit("CssHeightSet")
      [] family = "display" ->
            Tagged({"CssDisplayInherit", "CssDisplayInline", "CssDisplayBlock",
                    "CssDisplayListItem", "CssDisplayRunIn", "CssDisplayInlineBlock",
                    "CssDisplayTable", "CssDisplayInlineTable", "CssDisplayTableRowGroup",
                    "CssDisplayTableHeaderGroup", "CssDisplayTableFooterGroup",
                    "CssDisplayTableRow", "CssDisplayTableColumnGroup",
                    "CssDisplayTableColumn", "CssDisplayTableCell",
                    "CssDisplayTableCaption", "CssDisplayNone"})
      [] family = "float" ->
            Tagged({"CssFloatInherit", "CssFloatLeft", "CssFloatRight", "CssFloatNone"})
      [] family = "position" ->
            Tagged({"CssPositionInherit", "CssPositionStatic", "CssPositionRelative",
                    "CssPositionAbsolute", "CssPositionFixed"})
      [] family = "font_family" ->
            Tagged({"CssFontFamilyInherit", "CssFontFamilySerif", "CssFontFamilySansSerif",
                    "CssFontFamilyCursive", "CssFontFamilyFantasy", "CssFontFamilyMonospace"})
            \cup {[tag |-> "CssFontFamilyValue", names |-> l] : l \in FamilyNameLists}
      [] family = "font_size" ->
            Tagged({"CssFontSizeInherit", "CssFontSizeXXSmall", "CssFontSizeXSmall",
                    "CssFontSizeSmall", "CssFontSizeMedium", "CssFontSizeLarge",
                    "CssFontSizeXLarge", "CssFontSizeXXLarge", "CssFontSizeLarger",
                    "CssFontSizeSmaller"}) \cup WithUnit("CssFontSizeDimension")
      [] family = "font_style" ->
            Tagged({"CssFontStyleInherit", "CssFontStyleNormal", "CssFontStyleItalic",
                    "CssFontStyleOblique"})
      [] family = "font_weight" ->
            Tagged({"CssFontWeightInherit", "CssFontWeightNormal", "CssFontWeightBold",
                    "CssFontWeightBolder", "CssFontWeightLighter", "CssFontWeight100",
                    "CssFontWeight200", "CssFontWeight300", "CssFontWeight400",
                    "CssFontWeight500", "CssFontWeight600", "CssFontWeight700",
                    "CssFontWeight800", "CssFontWeight900"})
      [] family = "text_align" ->
            Tagged({"CssTextAlignInherit", "CssTextAlignInheritIfNonMagic", "CssTextAlignLeft",
                    "CssTextAlignRight", "CssTextAlignCenter", "CssTextAlignJustify",
                    "CssTextAlignDefault", "CssTextAlignLibcssLeft",
                    "CssTextAlignLibcssCenter", "CssTextAlignLibcssRight"})
      [] family = "text_decoration" ->
            Tagged({"CssTextDecorationInherit", "CssTextDecorationNone",
                    "CssTextDecorationBlink", "CssTextDecorationLineThrough",
                    "CssTextDecorationOverline", "CssTextDecorationUnderline"})
      [] family = "line_height" ->
            Tagged({"CssLineHeightInherit", "CssLineHeightNormal"})
            \cup {[tag |-> "CssLineHeightNumber", n |-> m] : m \in Magnitudes}
            \cup WithUnit("CssLineHeightDimension")

Families == {"color", "border_width", "margin", "padding", "width", "height", "display",
             "float", "position", "font_family", "font_size", "font_style", "font_weight",
             "text_align", "text_decoration", "line_height"}

\* the inherit sentinel of a property family
InheritSentinel(family) ==
    CASE family = "color" -> N("CssColorInherit")
      [] family = "border_width" -> N("CssBorderWidthInherit")
      [] family = "margin" -> N("CssMarginInherit")
      [] family = "padding" -> N("CssPaddingInherit")
      [] family = "width" -> N("CssWidthInherit")
      [] family = "height" -> N("CssHeightInherit")
      [] family = "display" -> N("CssDisplayInherit")
      [] family = "float" -> N("CssFloatInherit")
      [] family = "position" -> N("CssPositionInherit")
      [] family = "font_family" -> N("CssFontFamilyInherit")
      [] family = "font_size" -> N("CssFontSizeInherit")
      [] family = "font_style" -> N("CssFontStyleInherit")
      [] family = "font_weight" -> N("CssFontWeightInherit")
      [] family = "text_align" -> N("CssTextAlignInherit")
      [] family = "text_decoration" -> N("CssTextDecorationInherit")
      [] family = "line_height" -> N("CssLineHeightInherit")

\* ------------------------------------------------------------------------
\* State
\* ------------------------------------------------------------------------

VARIABLES
    parent,     \* the document tree: parent[n] is the parent node of n, 0 for the root
    computed,   \* computed[n]: the SelectResults the matcher produces for node n
    complete,   \* complete[n]: the CompleteSelectResults of node n, once constructed
    run,        \* the traversal in progress: the tree is resolved twice
    first,      \* the CompleteSelectResults the first traversal produced
    failure,    \* the message of the fail! that unwound the task, "none" before
    net,        \* the native hint handed to the adapter
    typed,      \* what the adapter returned for it
    call,       \* the call made to color.rs or units.rs: the function and its arguments
    returned,   \* what that call returned, or the fail! that ended it
    parser      \* the call of parse_stylesheet in progress: its position, its stream, its sheet

vars == <<parent, computed, complete, run, first, failure, net, typed, call, returned, parser>>

\* ------------------------------------------------------------------------
\* complete.rs: the resolver
\* ------------------------------------------------------------------------

NoResult == [tag |-> "NoResult"]

CompleteSelectResults(inner) == [tag |-> "Complete", inner |-> inner]

Some(h) == [tag |-> "Some", hint |-> h]

None == [tag |-> "None"]

CssHintLength(unit) == [tag |-> "CssHintLength", unit |-> unit]

\* the hint the composition pass makes of a font-size: a length for a
\* dimension, no length for a keyword or the inherit sentinel
FontSizeHint(value) ==
    IF value.tag = "CssFontSizeDimension" THEN CssHintLength(value.unit)
    ELSE [tag |-> "CssHintUnknown"]

\* the font-size the composition pass stores for the hint the callback returned
FontSizeOfHint(hint) == [tag |-> "CssFontSizeDimension", unit |-> hint.unit]

\* the fallback of every branch that has no parent length
DefaultFontSize == CssHintLength(Unit("CssUnitPx", float_to_css_fixed(Float(16, 1))))

\* the callback of inherit.rs: a fixed size whatever the parent and the child
compute_font_size_fixed(parent_hint, child) ==
    CssHintLength(Unit("CssUnitPx", float_to_css_fixed(Float(10, 1))))

\* ComputeFontSizeCallback: the closure of new_from_parent
compute_font_size(parent_hint, child) ==
    CASE child.tag = "CssHintLength" /\ child.unit.tag = "CssUnitEm" ->
            IF parent_hint.tag = "Some" /\ parent_hint.hint.tag = "CssHintLength"
            THEN LET parent_unit == parent_hint.hint.unit
                     new_value == FloatMul(css_fixed_to_float(parent_unit.v),
                                           css_fixed_to_float(child.unit.v))
                 IN  CssHintLength(Unit(parent_unit.tag, float_to_css_fixed(new_value)))
            ELSE DefaultFontSize
      [] child.tag = "CssHintLength" /\ child.unit.tag = "CssUnitPct" ->
            IF parent_hint.tag = "Some" /\ parent_hint.hint.tag = "CssHintLength"
            THEN LET parent_unit == parent_hint.hint.unit
                     new_value == FloatMul(css_fixed_to_float(parent_unit.v),
                                           FloatDiv(css_fixed_to_float(child.unit.v), 100))
                 IN  CssHintLength(Unit(parent_unit.tag, float_to_css_fixed(new_value)))
            ELSE DefaultFontSize
      [] child.tag = "CssHintLength" /\ child.unit.tag \notin {"CssUnitEm", "CssUnitPct"} ->
            CssHintLength(child.unit)
      [] OTHER -> DefaultFontSize

\* n::c::compose with the callback of new_from_parent: a property the child
\* inherits takes the parent's value, a specified font-size goes through the
\* callback, the rest is the child's
compose(parent_style, child_style) ==
    [display |->
        IF child_style.display = InheritSentinel("display")
        THEN parent_style.display
        ELSE child_style.display,
     background_color |->
        IF child_style.background_color = InheritSentinel("color")
        THEN parent_style.background_color
        ELSE child_style.background_color,
     font_size |->
        IF child_style.font_size = InheritSentinel("font_size")
        THEN parent_style.font_size
        ELSE FontSizeOfHint(compute_font_size(Some(FontSizeHint(parent_style.font_size)),
                               FontSizeHint(child_style.font_size)))]

strip(value) ==
    CASE value.tag = "Inherit" -> Fail("unexpected 'inherit' value in complete style")
      [] value.tag = "Specified" -> value.v
      [] OTHER -> value

\* the properties of the style tree
Props == {"font_size", "background_color", "display"}

\* ComputedStyle: the getters of a native style
ComputedGet(style, p) ==
    CASE p = "font_size" -> convert_net_font_size_value(style.font_size)
      [] p = "background_color" -> convert_net_color_value(style.background_color)
      [] p = "display" -> convert_net_display_value(style.display)

\* CompleteStyle: the getters of a complete style
CompleteGet(result, p) == strip(ComputedGet(result.inner, p))

\* the styles the matcher can produce for a node
FontSizes ==
    { N("CssFontSizeInherit"), N("CssFontSizeSmall"),
      [tag |-> "CssFontSizeDimension", unit |-> Unit("CssUnitPx", Fixed(20))],
      [tag |-> "CssFontSizeDimension", unit |-> Unit("CssUnitPt", Fixed(12))],
      [tag |-> "CssFontSizeDimension", unit |-> Unit("CssUnitEm", Fixed(2))],
      [tag |-> "CssFontSizeDimension", unit |-> Unit("CssUnitPct", Fixed(150))] }

BackgroundColors ==
    { N("CssColorInherit"),
      [tag |-> "CssColorColor", c |-> [r |-> 0, g |-> 0, b |-> 255, a |-> 255]],
      [tag |-> "CssColorColor", c |-> [r |-> 255, g |-> 0, b |-> 0, a |-> 255]] }

\* the display of every node of the trees resolved by Spec
Displays == {N("CssDisplayBlock")}

Styles == [font_size : FontSizes, background_color : BackgroundColors, display : Displays]

Trees == {t \in [Nodes -> 0..MaxNodes] :
            /\ t[Root] = 0
            /\ \A n \in Nodes \ {Root} : t[n] \in 1..(n - 1)}

Idle == [family |-> "none", value |-> N("none")]

Pending == [tag |-> "Pending"]

NotAsked == [tag |-> "NotAsked"]

NotSelected == [tag |-> "NotSelected"]

NoCall == [fn |-> "none"]

NoParser == [pc |-> "none"]

\* select_style: the SelectResults of a node; the matcher gives a node the
\* same style every time it is asked
select_style(n) == IF computed[n] = NotSelected THEN Styles ELSE {computed[n]}

Resolved(n) == complete[n] # NoResult

Alive == failure = "none"

\* new_root: the root's SelectResults is wrapped as it is
NewRoot ==
    /\ Alive
    /\ ~Resolved(Root)
    /\ \E root \in select_style(Root) :
        /\ computed' = [computed EXCEPT ![Root] = root]
        /\ complete' = [complete EXCEPT ![Root] = CompleteSelectResults(root)]
    /\ UNCHANGED <<parent, run, first, failure, net, typed, call, returned, parser>>

\* new_from_parent that wraps the child as new_root does, without composing
NewFromParentNoCompose(c) ==
    /\ Alive
    /\ c # Root
    /\ ~Resolved(c)
    /\ Resolved(parent[c])
    /\ \E child \in select_style(c) :
        /\ computed' = [computed EXCEPT ![c] = child]
        /\ complete' = [complete EXCEPT ![c] = CompleteSelectResults(child)]
    /\ UNCHANGED <<parent, run, first, failure, net, typed, call, returned, parser>>

\* new_from_parent whose in-place composition also lands in the SelectResults
\* the matcher hands out again
NewFromParentReusedInput(c) ==
    /\ Alive
    /\ c # Root
    /\ ~Resolved(c)
    /\ Resolved(parent[c])
    /\ \E child \in select_style(c) :
        LET result == compose(complete[parent[c]].inner, child)
        IN  /\ computed' = [computed EXCEPT ![c] = result]
            /\ complete' = [complete EXCEPT ![c] = CompleteSelectResults(result)]
    /\ UNCHANGED <<parent, run, first, failure, net, typed, call, returned, parser>>

\* new_from_parent that takes the parent's SelectResults when the parent has
\* no CompleteSelectResults yet
NewFromParentAnyOrder(c) ==
    /\ Alive
    /\ c # Root
    /\ ~Resolved(c)
    /\ \E child \in select_style(c) : \E parent_results \in select_style(parent[c]) :
        LET parent_style == IF Resolved(parent[c]) THEN complete[parent[c]].inner
                            ELSE parent_results
        IN  /\ computed' = [computed EXCEPT ![c] = child]
            /\ complete' = [complete EXCEPT ![c] =
                    CompleteSelectResults(compose(parent_style, child))]
    /\ UNCHANGED <<parent, run, first, failure, net, typed, call, returned, parser>>

\* new_from_parent whose result reference aliases the parent's style too
NewFromParentIntoParent(c) ==
    /\ Alive
    /\ c # Root
    /\ ~Resolved(c)
    /\ Resolved(parent[c])
    /\ \E child \in select_style(c) :
        LET result == CompleteSelectResults(compose(complete[parent[c]].inner, child))
        IN  /\ computed' = [computed EXCEPT ![c] = child]
            /\ complete' = [complete EXCEPT ![c] = result, ![parent[c]] = result]
    /\ UNCHANGED <<parent, run, first, failure, net, typed, call, returned, parser>>

\* new_from_parent whose font-size follows the parent's wherever the
\* background color is inherited
NewFromParentFontSizeWithColor(c) ==
    /\ Alive
    /\ c # Root
    /\ ~Resolved(c)
    /\ Resolved(parent[c])
    /\ \E child \in select_style(c) :
        LET parent_style == complete[parent[c]].inner
            result == compose(parent_style, child)
        IN  /\ computed' = [computed EXCEPT ![c] = child]
            /\ complete' = [complete EXCEPT ![c] = CompleteSelectResults(
                    IF child.background_color = InheritSentinel("color")
                    THEN [result EXCEPT !.font_size = parent_style.font_size]
                    ELSE result)]
    /\ UNCHANGED <<parent, run, first, failure, net, typed, call, returned, parser>>

\* new_from_parent that composes against the parent's SelectResults, the
\* style as specified, instead of its CompleteSelectResults
NewFromParentSpecifiedParent(c) ==
    /\ Alive
    /\ c # Root
    /\ ~Resolved(c)
    /\ Resolved(parent[c])
    /\ \E child \in select_style(c) :
        /\ computed' = [computed EXCEPT ![c] = child]
        /\ complete' = [complete EXCEPT ![c] =
                CompleteSelectResults(compose(computed[parent[c]], child))]
    /\ UNCHANGED <<parent, run, first, failure, net, typed, call, returned, parser>>

\* new_from_parent: the child's SelectResults is composed in place against
\* the parent's CompleteSelectResults
NewFromParent(c) ==
    /\ Alive
    /\ c # Root
    /\ ~Resolved(c)
    /\ Resolved(parent[c])
    /\ \E child \in select_style(c) :
        /\ computed' = [computed EXCEPT ![c] = child]
        /\ complete' = [complete EXCEPT ![c] =
                CompleteSelectResults(compose(complete[parent[c]].inner, child))]
    /\ UNCHANGED <<parent, run, first, failure, net, typed, call, returned, parser>>

\* a getter of CompleteStyle is called on a resolved node; a fail! unwinds
Get(n, p) ==
    /\ Alive
    /\ Resolved(n)
    /\ LET r == CompleteGet(complete[n], p)
       IN  failure' = IF IsFail(r) THEN r.msg ELSE failure
    /\ UNCHANGED <<parent, computed, complete, run, first, net, typed, call, returned, parser>>

\* the finished tree is dropped and resolved again from the same SelectResults
Restart ==
    /\ Alive
    /\ run = 1
    /\ \A n \in Nodes : Resolved(n)
    /\ first' = complete
    /\ complete' = [n \in Nodes |-> NoResult]
    /\ run' = 2
    /\ UNCHANGED <<parent, computed, failure, net, typed, call, returned, parser>>

Init ==
    /\ parent \in Trees
    /\ computed = [n \in Nodes |-> NotSelected]
    /\ complete = [n \in Nodes |-> NoResult]
    /\ run = 1
    /\ first = [n \in Nodes |-> NoResult]
    /\ failure = "none"
    /\ net = Idle
    /\ typed = Pending
    /\ call = NoCall
    /\ returned = NotAsked
    /\ parser = NoParser

Next ==
    \/ NewRoot
    \/ \E c \in Nodes : NewFromParent(c)
    \/ \E n \in Nodes, p \in Props : Get(n, p)

Spec == Init /\ [][Next]_vars

\* the tree is resolved, dropped, and resolved a second time
NextTwice ==
    \/ NewRoot
    \/ \E c \in Nodes : NewFromParent(c)
    \/ Restart

SpecTwice == Init /\ [][NextTwice]_vars

\* ------------------------------------------------------------------------
\* A tree with nodes whose display has no typed equivalent
\* ------------------------------------------------------------------------

\* the displays the matcher gives the nodes below the root
FatalDisplays == {N("CssDisplayBlock"), N("CssDisplayInline"), N("CssDisplayRunIn")}

\* the SelectResults of the tree: the root is a block, the font sizes are
\* absolute or in em
FatalStyles(n) ==
    [font_size : {[tag |-> "CssFontSizeDimension", unit |-> Unit("CssUnitPx", Fixed(20))],
                  [tag |-> "CssFontSizeDimension", unit |-> Unit("CssUnitEm", Fixed(2))]},
     background_color : {[tag |-> "CssColorColor", c |-> [r |-> 0, g |-> 0, b |-> 255, a |-> 255]]},
     display : IF n = Root THEN Displays ELSE FatalDisplays]

\* the matcher has handed out the SelectResults of every node
InitFatal ==
    /\ parent \in Trees
    /\ computed \in {f \in [Nodes -> UNION {FatalStyles(n) : n \in Nodes}] :
                        \A n \in Nodes : f[n] \in FatalStyles(n)}
    /\ complete = [n \in Nodes |-> NoResult]
    /\ run = 1
    /\ first = [n \in Nodes |-> NoResult]
    /\ failure = "none"
    /\ net = Idle
    /\ typed = Pending
    /\ call = NoCall
    /\ returned = NotAsked
    /\ parser = NoParser

SpecFatal == InitFatal /\ [][Next]_vars

\* ------------------------------------------------------------------------
\* The adapter on its own: a native hint is handed over and converted
\* ------------------------------------------------------------------------

Convert ==
    /\ typed = Pending
    /\ typed' = ConvertNet(net.family, net.value)
    /\ UNCHANGED <<parent, computed, complete, run, first, failure, net, call, returned, parser>>

Feed ==
    /\ typed # Pending
    /\ \E f \in Families : \E v \in NativeValues(f) : net' = [family |-> f, value |-> v]
    /\ typed' = Pending
    /\ UNCHANGED <<parent, computed, complete, run, first, failure, call, returned, parser>>

InitAdapter ==
    /\ parent = [n \in Nodes |-> n - 1]
    /\ computed = [n \in Nodes |-> NotSelected]
    /\ complete = [n \in Nodes |-> NoResult]
    /\ run = 1
    /\ first = [n \in Nodes |-> NoResult]
    /\ failure = "none"
    /\ net = Idle
    /\ typed = NotAsked
    /\ call = NoCall
    /\ returned = NotAsked
    /\ parser = NoParser

NextAdapter ==
    \/ Convert
    \/ Feed

SpecAdapter == InitAdapter /\ [][NextAdapter]_vars

\* ------------------------------------------------------------------------
\* color.rs: the constructors
\* ------------------------------------------------------------------------

\* a fail! record, told apart from a float
Failed(x) == "tag" \in DOMAIN x /\ x.tag = "Fail"

rgb(r, g, b) == rgba(r, g, b, Whole(1))

\* fn hue_to_rgb of hsla: the hue is wrapped once
hue_to_rgb(m1, m2, h0) ==
    LET h == IF FloatLt(h0, Whole(0)) THEN FloatAdd(h0, Whole(1))
             ELSE IF FloatLt(Whole(1), h0) THEN FloatSub(h0, Whole(1))
             ELSE h0
    IN  CASE FloatLe(Whole(0), h) /\ FloatLt(h, Float(1, 6)) ->
                FloatAdd(m1, FloatMul(FloatMul(FloatSub(m2, m1), h), Whole(6)))
          [] FloatLe(Float(1, 6), h) /\ FloatLt(h, Float(1, 2)) -> m2
          [] FloatLe(Float(1, 2), h) /\ FloatLt(h, Float(2, 3)) ->
                FloatAdd(m1, FloatMul(FloatSub(m2, m1),
                                      FloatSub(Whole(4), FloatMul(Whole(6), h))))
          [] FloatLe(Float(2, 3), h) /\ FloatLe(h, Whole(1)) -> m1
          [] OTHER -> Fail("unexpected hue value")

\* Channel cutting the fraction off
ChannelTruncated(x) == (255 * x.num) \div x.den

\* (255.0 * x).round() as u8, for a product within the range of u8
Channel(x) == round(FloatMul(Whole(255), x))

hsla(h, s, l, a) ==
    LET m2 == IF FloatLe(l, Float(1, 2)) THEN FloatMul(l, FloatAdd(s, Whole(1)))
              ELSE FloatSub(FloatAdd(l, s), FloatMul(l, s))
        m1 == FloatSub(FloatMul(l, Whole(2)), m2)
        hh == FloatDiv(h, 360)
        r == hue_to_rgb(m1, m2, FloatAdd(hh, Float(1, 3)))
        g == hue_to_rgb(m1, m2, hh)
        b == hue_to_rgb(m1, m2, FloatSub(hh, Float(1, 3)))
    IN  IF Failed(r) THEN r
        ELSE IF Failed(g) THEN g
        ELSE IF Failed(b) THEN b
        ELSE rgba(Channel(r), Channel(g), Channel(b), a)

hsl(h, s, l) == hsla(h, s, l, Whole(1))

\* mod css_colors: the colors defined by name
css_colors ==
    { [name |-> "aliceblue", color |-> rgba(240, 248, 255, Whole(1))],
      [name |-> "antiquewhite", color |-> rgba(250, 235, 215, Whole(1))],
      [name |-> "aqua", color |-> rgba(0, 255, 255, Whole(1))],
      [name |-> "aquamarine", color |-> rgba(127, 255, 212, Whole(1))],
      [name |-> "azure", color |-> rgba(240, 255, 255, Whole(1))],
      [name |-> "beige", color |-> rgba(245, 245, 220, Whole(1))],
      [name |-> "bisque", color |-> rgba(255, 228, 196, Whole(1))],
      [name |-> "black", color |-> rgba(0, 0, 0, Whole(1))],
      [name |-> "blanchedalmond", color |-> rgba(255, 235, 205, Whole(1))],
      [name |-> "blue", color |-> rgba(0, 0, 255, Whole(1))],
      [name |-> "blueviolet", color |-> rgba(138, 43, 226, Whole(1))],
      [name |-> "brown", color |-> rgba(165, 42, 42, Whole(1))],
      [name |-> "burlywood", color |-> rgba(222, 184, 135, Whole(1))],
      [name |-> "cadetblue", color |-> rgba(95, 158, 160, Whole(1))],
      [name |-> "chartreuse", color |-> rgba(127, 255, 0, Whole(1))],
      [name |-> "chocolate", color |-> rgba(210, 105, 30, Whole(1))],
      [name |-> "coral", color |-> rgba(255, 127, 80, Whole(1))],
      [name |-> "cornflowerblue", color |-> rgba(100, 149, 237, Whole(1))],
      [name |-> "cornsilk", color |-> rgba(255, 248, 220, Whole(1))],
      [name |-> "crimson", color |-> rgba(220, 20, 60, Whole(1))],
      [name |-> "cyan", color |-> rgba(0, 255, 255, Whole(1))],
      [name |-> "darkblue", color |-> rgba(0, 0, 139, Whole(1))],
      [name |-> "darkcyan", color |-> rgba(0, 139, 139, Whole(1))],
      [name |-> "darkgoldenrod", color |-> rgba(184, 134, 11, Whole(1))],
      [name |-> "darkgray", color |-> rgba(169, 169, 169, Whole(1))],
      [name |-> "darkgreen", color |-> rgba(0, 100, 0, Whole(1))],
      [name |-> "darkgrey", color |-> rgba(169, 169, 169, Whole(1))],
      [name |-> "darkkhaki", color |-> rgba(189, 183, 107, Whole(1))],
      [name |-> "darkmagenta", color |-> rgba(139, 0, 139, Whole(1))],
      [name |-> "darkolivegreen", color |-> rgba(85, 107, 47, Whole(1))],
      [name |-> "darkorange", color |-> rgba(255, 140, 0, Whole(1))],
      [name |-> "darkorchid", color |-> rgba(153, 50, 204, Whole(1))],
      [name |-> "darkred", color |-> rgba(139, 0, 0, Whole(1))],
      [name |-> "darksalmon", color |-> rgba(233, 150, 122, Whole(1))],
      [name |-> "darkseagreen", color |-> rgba(143, 188, 143, Whole(1))],
      [name |-> "darkslateblue", color |-> rgba(72, 61, 139, Whole(1))],
      [name |-> "darkslategray", color |-> rgba(47, 79, 79, Whole(1))],
      [name |-> "darkslategrey", color |-> rgba(47, 79, 79, Whole(1))],
      [name |-> "darkturquoise", color |-> rgba(0, 206, 209, Whole(1))],
      [name |-> "darkviolet", color |-> rgba(148, 0, 211, Whole(1))],
      [name |-> "deeppink", color |-> rgba(255, 20, 147, Whole(1))],
      [name |-> "deepskyblue", color |-> rgba(0, 191, 255, Whole(1))],
      [name |-> "dimgray", color |-> rgba(105, 105, 105, Whole(1))],
      [name |-> "dimgrey", color |-> rgba(105, 105, 105, Whole(1))],
      [name |-> "dodgerblue", color |-> rgba(30, 144, 255, Whole(1))],
      [name |-> "firebrick", color |-> rgba(178, 34, 34, Whole(1))],
      [name |-> "floralwhite", color |-> rgba(255, 250, 240, Whole(1))],
      [name |-> "forestgreen", color |-> rgba(34, 139, 34, Whole(1))],
      [name |-> "fuchsia", color |-> rgba(255, 0, 255, Whole(1))],
      [name |-> "gainsboro", color |-> rgba(220, 220, 220, Whole(1))],
      [name |-> "ghostwhite", color |-> rgba(248, 248, 255, Whole(1))],
      [name |-> "gold", color |-> rgba(255, 215, 0, Whole(1))],
      [name |-> "goldenrod", color |-> rgba(218, 165, 32, Whole(1))],
      [name |-> "gray", color |-> rgba(128, 128, 128, Whole(1))],
      [name |-> "green", color |-> rgba(0, 128, 0, Whole(1))],
      [name |-> "greenyellow", color |-> rgba(173, 255, 47, Whole(1))],
      [name |-> "grey", color |-> rgba(128, 128, 128, Whole(1))],
      [name |-> "honeydew", color |-> rgba(240, 255, 240, Whole(1))],
      [name |-> "hotpink", color |-> rgba(255, 105, 180, Whole(1))],
      [name |-> "indianred", color |-> rgba(205, 92, 92, Whole(1))],
      [name |-> "indigo", color |-> rgba(75, 0, 130, Whole(1))],
      [name |-> "ivory", color |-> rgba(255, 255, 240, Whole(1))],
      [name |-> "khaki", color |-> rgba(240, 230, 140, Whole(1))],
      [name |-> "lavender", color |-> rgba(230, 230, 250, Whole(1))],
      [name |-> "lavenderblush", color |-> rgba(255, 240, 245, Whole(1))],
      [name |-> "lawngreen", color |-> rgba(124, 252, 0, Whole(1))],
      [name |-> "lemonchiffon", color |-> rgba(255, 250, 205, Whole(1))],
      [name |-> "lightblue", color |-> rgba(173, 216, 230, Whole(1))],
      [name |-> "lightcoral", color |-> rgba(240, 128, 128, Whole(1))],
      [name |-> "lightcyan", color |-> rgba(224, 255, 255, Whole(1))],
      [name |-> "lightgoldenrodyellow", color |-> rgba(250, 250, 210, Whole(1))],
      [name |-> "lightgray", color |-> rgba(211, 211, 211, Whole(1))],
      [name |-> "lightgreen", color |-> rgba(144, 238, 144, Whole(1))],
      [name |-> "lightgrey", color |-> rgba(211, 211, 211, Whole(1))],
      [name |-> "lightpink", color |-> rgba(255, 182, 193, Whole(1))],
      [name |-> "lightsalmon", color |-> rgba(255, 160, 122, Whole(1))],
      [name |-> "lightseagreen", color |-> rgba(32, 178, 170, Whole(1))],
      [name |-> "lightskyblue", color |-> rgba(135, 206, 250, Whole(1))],
      [name |-> "lightslategray", color |-> rgba(119, 136, 153, Whole(1))],
      [name |-> "lightslategrey", color |-> rgba(119, 136, 153, Whole(1))],
      [name |-> "lightsteelblue", color |-> rgba(176, 196, 222, Whole(1))],
      [name |-> "lightyellow", color |-> rgba(255, 255, 224, Whole(1))],
      [name |-> "lime", color |-> rgba(0, 255, 0, Whole(1))],
      [name |-> "limegreen", color |-> rgba(50, 205, 50, Whole(1))],
      [name |-> "linen", color |-> rgba(250, 240, 230, Whole(1))],
      [name |-> "magenta", color |-> rgba(255, 0, 255, Whole(1))],
      [name |-> "maroon", color |-> rgba(128, 0, 0, Whole(1))],
      [name |-> "mediumaquamarine", color |-> rgba(102, 205, 170, Whole(1))],
      [name |-> "mediumblue", color |-> rgba(0, 0, 205, Whole(1))],
      [name |-> "mediumorchid", color |-> rgba(186, 85, 211, Whole(1))],
      [name |-> "mediumpurple", color |-> rgba(147, 112, 219, Whole(1))],
      [name |-> "mediumseagreen", color |-> rgba(60, 179, 113, Whole(1))],
      [name |-> "mediumslateblue", color |-> rgba(123, 104, 238, Whole(1))],
      [name |-> "mediumspringgreen", color |-> rgba(0, 250, 154, Whole(1))],
      [name |-> "mediumturquoise", color |-> rgba(72, 209, 204, Whole(1))],
      [name |-> "mediumvioletred", color |-> rgba(199, 21, 133, Whole(1))],
      [name |-> "midnightblue", color |-> rgba(25, 25, 112, Whole(1))],
      [name |-> "mintcream", color |-> rgba(245, 255, 250, Whole(1))],
      [name |-> "mistyrose", color |-> rgba(255, 228, 225, Whole(1))],
      [name |-> "moccasin", color |-> rgba(255, 228, 181, Whole(1))],
      [name |-> "navajowhite", color |-> rgba(255, 222, 173, Whole(1))],
      [name |-> "navy", color |-> rgba(0, 0, 128, Whole(1))],
      [name |-> "oldlace", color |-> rgba(253, 245, 230, Whole(1))],
      [name |-> "olive", color |-> rgba(128, 128, 0, Whole(1))],
      [name |-> "olivedrab", color |-> rgba(107, 142, 35, Whole(1))],
      [name |-> "orange", color |-> rgba(255, 165, 0, Whole(1))],
      [name |-> "orangered", color |-> rgba(255, 69, 0, Whole(1))],
      [name |-> "orchid", color |-> rgba(218, 112, 214, Whole(1))],
      [name |-> "palegoldenrod", color |-> rgba(238, 232, 170, Whole(1))],
      [name |-> "palegreen", color |-> rgba(152, 251, 152, Whole(1))],
      [name |-> "paleturquoise", color |-> rgba(175, 238, 238, Whole(1))],
      [name |-> "palevioletred", color |-> rgba(219, 112, 147, Whole(1))],
      [name |-> "papayawhip", color |-> rgba(255, 239, 213, Whole(1))],
      [name |-> "peachpuff", color |-> rgba(255, 218, 185, Whole(1))],
      [name |-> "peru", color |-> rgba(205, 133, 63, Whole(1))],
      [name |-> "pink", color |-> rgba(255, 192, 203, Whole(1))],
      [name |-> "plum", color |-> rgba(221, 160, 221, Whole(1))],
      [name |-> "powderblue", color |-> rgba(176, 224, 230, Whole(1))],
      [name |-> "purple", color |-> rgba(128, 0, 128, Whole(1))],
      [name |-> "red", color |-> rgba(255, 0, 0, Whole(1))],
      [name |-> "rosybrown", color |-> rgba(188, 143, 143, Whole(1))],
      [name |-> "royalblue", color |-> rgba(65, 105, 225, Whole(1))],
      [name |-> "saddlebrown", color |-> rgba(139, 69, 19, Whole(1))],
      [name |-> "salmon", color |-> rgba(250, 128, 114, Whole(1))],
      [name |-> "sandybrown", color |-> rgba(244, 164, 96, Whole(1))],
      [name |-> "seagreen", color |-> rgba(46, 139, 87, Whole(1))],
      [name |-> "seashell", color |-> rgba(255, 245, 238, Whole(1))],
      [name |-> "sienna", color |-> rgba(160, 82, 45, Whole(1))],
      [name |-> "silver", color |-> rgba(192, 192, 192, Whole(1))],
      [name |-> "skyblue", color |-> rgba(135, 206, 235, Whole(1))],
      [name |-> "slateblue", color |-> rgba(106, 90, 205, Whole(1))],
      [name |-> "slategray", color |-> rgba(112, 128, 144, Whole(1))],
      [name |-> "slategrey", color |-> rgba(112, 128, 144, Whole(1))],
      [name |-> "snow", color |-> rgba(255, 250, 250, Whole(1))],
      [name |-> "springgreen", color |-> rgba(0, 255, 127, Whole(1))],
      [name |-> "steelblue", color |-> rgba(70, 130, 180, Whole(1))],
      [name |-> "tan", color |-> rgba(210, 180, 140, Whole(1))],
      [name |-> "teal", color |-> rgba(0, 128, 128, Whole(1))],
      [name |-> "thistle", color |-> rgba(216, 191, 216, Whole(1))],
      [name |-> "tomato", color |-> rgba(255, 99, 71, Whole(1))],
      [name |-> "turquoise", color |-> rgba(64, 224, 208, Whole(1))],
      [name |-> "violet", color |-> rgba(238, 130, 238, Whole(1))],
      [name |-> "wheat", color |-> rgba(245, 222, 179, Whole(1))],
      [name |-> "white", color |-> rgba(255, 255, 255, Whole(1))],
      [name |-> "whitesmoke", color |-> rgba(245, 245, 245, Whole(1))],
      [name |-> "yellow", color |-> rgba(255, 255, 0, Whole(1))],
      [name |-> "yellowgreen", color |-> rgba(154, 205, 50, Whole(1))] }

\* the color a function of css_colors returns
css_color(name) == (CHOOSE e \in css_colors : e.name = name).color

\* ------------------------------------------------------------------------
\* Strings
\* ------------------------------------------------------------------------

Upper == "ABCDEFGHIJKLMNOPQRSTUVWXYZ"

Lower == "abcdefghijklmnopqrstuvwxyz"

Digits == "0123456789"

\* the i-th character of a string
Char(s, i) == SubSeq(s, i, i)

\* the place of a character in an alphabet, 0 when it has none
IndexOf(alphabet, c) ==
    IF \E i \in 1..Len(alphabet) : Char(alphabet, i) = c
    THEN CHOOSE i \in 1..Len(alphabet) : Char(alphabet, i) = c
    ELSE 0

to_lower_char(c) == IF IndexOf(Upper, c) = 0 THEN c ELSE Char(Lower, IndexOf(Upper, c))

to_upper_char(c) == IF IndexOf(Lower, c) = 0 THEN c ELSE Char(Upper, IndexOf(Lower, c))

RECURSIVE to_lower(_)
\* to_ascii().to_lower().to_str_ascii()
to_lower(s) == IF s = "" THEN "" ELSE to_lower_char(Head(s)) \o to_lower(Tail(s))

starts_with(s, prefix) == Len(s) >= Len(prefix) /\ SubSeq(s, 1, Len(prefix)) = prefix

\* str::slice asserts begin <= end and end <= len
slice_fails(s, begin, end) == begin > end \/ end > Len(s)

\* the bytes from begin (counted from 0) up to end, end left out
slice(s, begin, end) == SubSeq(s, begin + 1, end)

RECURSIVE split_iter(_, _)
\* the pieces between the separators, empty pieces kept
split_iter(s, sep) ==
    IF IndexOf(s, sep) = 0 THEN <<s>>
    ELSE LET i == CHOOSE k \in 1..Len(s) :
                    Char(s, k) = sep /\ \A j \in 1..(k - 1) : Char(s, j) # sep
         IN  <<SubSeq(s, 1, i - 1)>> \o split_iter(SubSeq(s, i + 1, Len(s)), sep)

all_digits(s) == \A i \in 1..Len(s) : IndexOf(Digits, Char(s, i)) # 0

RECURSIVE digits_value(_)
\* the number a string of decimal digits writes
digits_value(s) ==
    IF s = "" THEN 0
    ELSE digits_value(SubSeq(s, 1, Len(s) - 1)) * 10 + IndexOf(Digits, Char(s, Len(s))) - 1

RECURSIVE pow10(_)
pow10(k) == IF k = 0 THEN 1 ELSE 10 * pow10(k - 1)

\* FromStr::from_str for u8: decimal digits, nothing else, within the range
from_str_u8(s) ==
    IF s # "" /\ all_digits(s) /\ digits_value(s) <= 255
    THEN Some(digits_value(s))
    ELSE None

\* FromStr::from_str for float: an optional minus sign, digits, at most one
\* point, at least one digit
from_str_float(s) ==
    LET negative == s # "" /\ Head(s) = "-"
        body == IF negative THEN Tail(s) ELSE s
        parts == split_iter(body, ".")
        whole == parts[1]
        fraction == IF Len(parts) = 2 THEN parts[2] ELSE ""
        magnitude == digits_value(whole) * pow10(Len(fraction)) + digits_value(fraction)
    IN  IF Len(parts) <= 2 /\ all_digits(whole) /\ all_digits(fraction)
            /\ (whole \o fraction) # ""
        THEN Some(Float(IF negative THEN 0 - magnitude ELSE magnitude, pow10(Len(fraction))))
        ELSE None

\* ------------------------------------------------------------------------
\* color.rs: mod parsing
\* ------------------------------------------------------------------------

\* warn! and no color
fail_unrecognized(col) == None

\* parse_by_name matching the keyword as it is written
parse_by_name_exact(color) ==
    IF color \in {"black", "silver", "gray", "white", "maroon", "red", "purple", "fuchsia",
                  "green", "lime", "olive", "yellow", "navy", "blue", "teal", "aqua"}
    THEN Some(css_color(color))
    ELSE IF color = "grey" THEN Some(css_color("gray"))
    ELSE fail_unrecognized(color)

parse_by_name(color) ==
    LET name == to_lower(color)
    IN  IF name \in {"black", "silver", "gray", "white", "maroon", "red", "purple", "fuchsia",
                     "green", "lime", "olive", "yellow", "navy", "blue", "teal", "aqua"}
        THEN Some(css_color(name))
        ELSE IF name = "grey" THEN Some(css_color("gray"))
        ELSE fail_unrecognized(color)

\* the result of a constructor, a fail! in it unwinding the parse too
Constructed(c) == IF IsFail(c) THEN c ELSE Some(c)

parse_rgb(color) ==
    IF slice_fails(color, 4, Len(color) - 1) THEN Fail("slice: begin <= end")
    ELSE LET cols == split_iter(slice(color, 4, Len(color) - 1), ",")
         IN  IF Len(cols) # 3 THEN fail_unrecognized(color)
             ELSE LET r == from_str_u8(cols[1])
                      g == from_str_u8(cols[2])
                      b == from_str_u8(cols[3])
                  IN  IF r # None /\ g # None /\ b # None
                      THEN Some(rgb(r.hint, g.hint, b.hint))
                      ELSE fail_unrecognized(color)

parse_rgba(color) ==
    IF slice_fails(color, 5, Len(color) - 1) THEN Fail("slice: begin <= end")
    ELSE LET cols == split_iter(slice(color, 5, Len(color) - 1), ",")
         IN  IF Len(cols) # 4 THEN fail_unrecognized(color)
             ELSE LET r == from_str_u8(cols[1])
                      g == from_str_u8(cols[2])
                      b == from_str_u8(cols[3])
                      a == from_str_float(cols[4])
                  IN  IF r # None /\ g # None /\ b # None /\ a # None
                      THEN Some(rgba(r.hint, g.hint, b.hint, a.hint))
                      ELSE fail_unrecognized(color)

parse_hsl(color) ==
    IF slice_fails(color, 4, Len(color) - 1) THEN Fail("slice: begin <= end")
    ELSE LET vals == split_iter(slice(color, 4, Len(color) - 1), ",")
         IN  IF Len(vals) # 3 THEN fail_unrecognized(color)
             ELSE LET h == from_str_float(vals[1])
                      s == from_str_float(vals[2])
                      l == from_str_float(vals[3])
                  IN  IF h # None /\ s # None /\ l # None
                      THEN Constructed(hsl(h.hint, s.hint, l.hint))
                      ELSE fail_unrecognized(color)

parse_hsla(color) ==
    IF slice_fails(color, 5, Len(color) - 1) THEN Fail("slice: begin <= end")
    ELSE LET vals == split_iter(slice(color, 5, Len(color) - 1), ",")
         IN  IF Len(vals) # 4 THEN fail_unrecognized(color)
             ELSE LET h == from_str_float(vals[1])
                      s == from_str_float(vals[2])
                      l == from_str_float(vals[3])
                      a == from_str_float(vals[4])
                  IN  IF h # None /\ s # None /\ l # None /\ a # None
                      THEN Constructed(hsla(h.hint, s.hint, l.hint, a.hint))
                      ELSE fail_unrecognized(color)

parse_color(color) ==
    CASE starts_with(color, "rgb(") -> parse_rgb(color)
      [] starts_with(color, "rgba(") -> parse_rgba(color)
      [] starts_with(color, "hsl(") -> parse_hsl(color)
      [] starts_with(color, "hsla(") -> parse_hsla(color)
      [] OTHER -> parse_by_name(color)

\* ------------------------------------------------------------------------
\* units.rs
\* ------------------------------------------------------------------------

\* Length::rel
rel(length) ==
    CASE length.tag = "Em" -> length.f
      [] OTHER -> Fail("attempted to access relative unit of an absolute length")

\* Length::abs
abs(length) ==
    CASE length.tag = "Em" -> length.f
      [] OTHER -> Fail("attempted to access relative unit of an absolute length")

\* ------------------------------------------------------------------------
\* values.rs: the implementations of Eq
\* ------------------------------------------------------------------------

\* impl Length: cmp::Eq
length_eq(self, other) ==
    CASE self.tag = "Em" /\ other.tag = "Em" -> self.f = other.f
      [] self.tag = "Px" /\ other.tag = "Px" -> self.f = other.f
      [] self.tag = "Pt" /\ other.tag = "Pt" -> self.f = other.f
      [] OTHER -> FALSE

\* eq taking two values of the same variant for equal
eq_same_variant(self, other) ==
    CASE self.tag = "Inherit" /\ other.tag = "Inherit" -> TRUE
      [] self.tag = "Specified" /\ other.tag = "Specified" -> TRUE
      [] OTHER -> FALSE

\* impl<T: Eq> CSSValue<T> : Eq, for T = Length
eq(self, other) ==
    CASE self.tag = "Inherit" /\ other.tag = "Inherit" -> TRUE
      [] self.tag = "Specified" /\ other.tag = "Specified" -> length_eq(self.v, other.v)
      [] OTHER -> FALSE

ne(self, other) == ~eq(self, other)

\* ------------------------------------------------------------------------
\* inherit.rs: the earlier resolver
\* ------------------------------------------------------------------------

\* the callback of inherit.rs new_from_parent
inherit_compute_font_size(parent_hint) ==
    CssHintLength(Unit("CssUnitPx", float_to_css_fixed(Float(10, 1))))

\* ------------------------------------------------------------------------
\* color.rs and units.rs on their own: a function is called on an input
\* ------------------------------------------------------------------------

RECURSIVE CaseVariants(_)
\* every upper/lower-case spelling of a word
CaseVariants(word) ==
    IF word = "" THEN {""}
    ELSE {c \o rest : c \in {Head(word), to_upper_char(Head(word))},
                      rest \in CaseVariants(Tail(word))}

\* the keywords parse_by_name matches
Keywords == {"black", "silver", "gray", "grey", "white", "maroon", "red", "purple", "fuchsia",
             "green", "lime", "olive", "yellow", "navy", "blue", "teal", "aqua"}

KeywordStrings ==
    UNION {CaseVariants(k) : k \in Keywords}
        \cup {e.name : e \in css_colors}
        \cup {"foobarbaz", "FooBarBaz", "rbga(1,2,3)", "RGB(1,2,3)", ""}

\* components written for a u8 channel
ChannelTokens == {"1", "03", "255", " 2 ", "x", ""}

\* components written for an alpha
AlphaTokens == {"1", "1.0", "1.00", ".5", "0.5", "x"}

\* components written for a hue, in degrees
HueTokens == {"0", "120", "120.0", "240.0", "60.", "300", "231.2", "360", "400",
              "720", "-120", "-720", " 120", "x"}

\* components written for a saturation or a lightness, within [0, 1]
FractionTokens == {"0", "0.0", ".25", ".5", "0.75", "1", "1.0", "1.", " 1", "x"}

\* prefix(a,b,...) for a sequence of components
Notation(prefix, components) ==
    LET Joined[i \in 0..Len(components)] ==
            IF i = 0 THEN ""
            ELSE IF i = 1 THEN components[1]
            ELSE Joined[i - 1] \o "," \o components[i]
    IN  prefix \o Joined[Len(components)] \o ")"

RgbStrings ==
    {Notation("rgb(", <<r, g, b>>) : r \in ChannelTokens, g \in ChannelTokens, b \in ChannelTokens}
        \cup {Notation("rgb(", <<r, g>>) : r \in ChannelTokens, g \in ChannelTokens}
        \cup {Notation("rgb(", <<r, g, "3", a>>) : r \in ChannelTokens, g \in ChannelTokens,
                                                    a \in AlphaTokens}
        \cup {"rgb( 1 , 2 , 3 )", "rgb(1,2,3)", "rgb(1,2,3", "rgb(1,2,34", "rgb(1,2,3]",
              "rgb(", "rgb()"}

RgbaStrings ==
    {Notation("rgba(", <<r, g, "3", a>>) : r \in ChannelTokens, g \in ChannelTokens,
                                            a \in AlphaTokens}
        \cup {Notation("rgba(", <<r, "250", b>>) : r \in ChannelTokens, b \in ChannelTokens}
        \cup {"rgba(15,250,3,.5)", "rgba(15,250,3,0.5)", "rgba( 1 , 2 , 3 , 1 )", "rgba(1,2,3,1)",
              "rgba(1,2,3,1,1)", "rgba(1,2,3,.55", "rgba(", "rgba()"}

HslStrings ==
    {Notation("hsl(", <<h, s, l>>) : h \in HueTokens, s \in FractionTokens, l \in FractionTokens}
        \cup {Notation("hsl(", <<h, s>>) : h \in HueTokens, s \in FractionTokens}
        \cup {"hsl(1,2,3,.4)", "hsl( 120 , 1 , .5 )", "hsl(120,1,.55", "hsl(", "hsl()"}

HslaStrings ==
    {Notation("hsla(", <<h, "1", l, a>>) : h \in HueTokens, l \in FractionTokens, a \in AlphaTokens}
        \cup {Notation("hsla(", <<h, s, ".5">>) : h \in HueTokens, s \in FractionTokens}
        \cup {"hsla(120,1,.5,1,1)", "hsla( 120 , 1 , .5 , 1 )", "hsla(", "hsla()"}

\* the strings handed to parse_color
ColorStrings == KeywordStrings \cup RgbStrings \cup RgbaStrings \cup HslStrings \cup HslaStrings

\* hues in degrees: within a turn, and turns beyond it on either side
Hues ==
    {Whole(d) : d \in {0, 30, 45, 60, 90, 120, 150, 180, 210, 240, 270, 300, 330, 360}}
        \cup {Float(1156, 5)}
        \cup {Whole(400), Whole(480), Whole(720), Whole(0 - 120), Whole(0 - 720)}

\* saturations and lightnesses
Fractions == {Whole(0), Float(1, 4), Float(3, 10), Float(1, 2), Float(3, 4), Whole(1)}

Alphas == {Whole(0), Float(1, 2), Whole(1)}

\* the lengths read by Length::abs
Lengths == {Px(Whole(10)), Px(Float(5, 2)), Em(Whole(2)), Em(Float(3, 2)), Pt(Whole(12))}

\* the values compared by eq: CSSValue<Length>
CSSValues == {Inherit} \cup {Specified(length) : length \in Lengths}

\* the hints handed to the font-size callback
ParentHints ==
    {None, Some([tag |-> "CssHintUnknown"])}
        \cup {Some(CssHintLength(Unit(u, Fixed(m)))) : u \in {"CssUnitPx", "CssUnitPt"}, m \in {12, 20}}

ChildHints ==
    {[tag |-> "CssHintUnknown"]}
        \cup {CssHintLength(Unit(u, Fixed(m))) :
                    u \in {"CssUnitPx", "CssUnitEm", "CssUnitPct"}, m \in {2, 150}}

\* the calls made: a function and its arguments
Calls ==
    {[fn |-> "parse_color", arg |-> color] : color \in ColorStrings}
        \cup {[fn |-> "hsla", arg |-> <<h, s, l, a>>] :
                    h \in Hues, s \in Fractions, l \in Fractions, a \in Alphas}
        \cup {[fn |-> "hsl", arg |-> <<h, s, l>>] : h \in Hues, s \in Fractions, l \in Fractions}
        \cup {[fn |-> "abs", arg |-> length] : length \in Lengths}
        \cup {[fn |-> "eq", arg |-> <<a, b>>] : a \in CSSValues, b \in CSSValues}
        \cup {[fn |-> "compute_font_size", arg |-> <<p, c>>] : p \in ParentHints, c \in ChildHints}

ParseColor ==
    /\ call.fn = "parse_color"
    /\ returned = NotAsked
    /\ returned' = parse_color(call.arg)
    /\ UNCHANGED <<parent, computed, complete, run, first, failure, net, typed, call, parser>>

Hsla ==
    /\ call.fn = "hsla"
    /\ returned = NotAsked
    /\ returned' = hsla(call.arg[1], call.arg[2], call.arg[3], call.arg[4])
    /\ UNCHANGED <<parent, computed, complete, run, first, failure, net, typed, call, parser>>

Hsl ==
    /\ call.fn = "hsl"
    /\ returned = NotAsked
    /\ returned' = hsl(call.arg[1], call.arg[2], call.arg[3])
    /\ UNCHANGED <<parent, computed, complete, run, first, failure, net, typed, call, parser>>

Abs ==
    /\ call.fn = "abs"
    /\ returned = NotAsked
    /\ returned' = abs(call.arg)
    /\ UNCHANGED <<parent, computed, complete, run, first, failure, net, typed, call, parser>>

\* self == other, other == self and self != other
Eq ==
    /\ call.fn = "eq"
    /\ returned = NotAsked
    /\ returned' = [tag |-> "Compared",
                    eq |-> eq(call.arg[1], call.arg[2]),
                    flipped |-> eq(call.arg[2], call.arg[1]),
                    ne |-> ne(call.arg[1], call.arg[2])]
    /\ UNCHANGED <<parent, computed, complete, run, first, failure, net, typed, call, parser>>

\* the font-size callback of each version of the resolver is called
ComputeFontSize ==
    /\ call.fn = "compute_font_size"
    /\ returned = NotAsked
    /\ returned' = [tag |-> "Hints",
                    complete |-> compute_font_size(call.arg[1], call.arg[2]),
                    inherit |-> inherit_compute_font_size(call.arg[1])]
    /\ UNCHANGED <<parent, computed, complete, run, first, failure, net, typed, call, parser>>

InitValues ==
    /\ parent = [n \in Nodes |-> n - 1]
    /\ computed = [n \in Nodes |-> NotSelected]
    /\ complete = [n \in Nodes |-> NoResult]
    /\ run = 1
    /\ first = [n \in Nodes |-> NoResult]
    /\ failure = "none"
    /\ net = Idle
    /\ typed = NotAsked
    /\ call \in Calls
    /\ returned = NotAsked
    /\ parser = NoParser

NextValues ==
    \/ ParseColor
    \/ Hsla
    \/ Hsl
    \/ Abs
    \/ Eq
    \/ ComputeFontSize

SpecValues == InitValues /\ [][NextValues]_vars

\* ------------------------------------------------------------------------
\* parser.rs: parse_stylesheet
\* ------------------------------------------------------------------------

\* the longest run of yields a stream is given one by one
MaxStream == 3

\* the polls after which an endless stream is left alone
MaxPolls == MaxStream + 1

Chunks == {"a", "b"}

\* DataStream: the yields of the first calls, then None for ever (as
\* style_stream after its one chunk) or data for ever
DataStreams ==
    [items : UNION {[1..n -> {Some(c) : c \in Chunks} \cup {None}] : n \in 0..MaxStream},
     rest : {"none", "data"}]

\* input(): what the k-th call of the stream yields
input(stream, k) ==
    IF k <= Len(stream.items) THEN stream.items[k]
    ELSE IF stream.rest = "none" THEN None
    ELSE Some("a")

NoSheet == [tag |-> "NoSheet"]

\* css_stylesheet_create(&params)
css_stylesheet_create == [data |-> <<>>, data_done |-> 0]

append_data(sheet, data) == [sheet EXCEPT !.data = Append(@, data)]

data_done(sheet) == [sheet EXCEPT !.data_done = @ + 1]

\* let mut sheet = css_stylesheet_create(&params)
Create ==
    /\ parser.pc = "create"
    /\ parser' = [parser EXCEPT !.sheet = css_stylesheet_create, !.pc = "loop"]
    /\ UNCHANGED <<parent, computed, complete, run, first, failure, net, typed, call, returned>>

\* a turn of the loop that polls the stream and lets the chunk go
LoopDropsData ==
    /\ parser.pc = "loop"
    /\ parser.polled < MaxPolls
    /\ LET item == input(parser.input, parser.polled + 1)
       IN  parser' = IF item.tag = "Some"
                     THEN [parser EXCEPT !.polled = @ + 1]
                     ELSE [parser EXCEPT !.polled = @ + 1, !.pc = "data_done"]
    /\ UNCHANGED <<parent, computed, complete, run, first, failure, net, typed, call, returned>>

\* a turn of the loop: match input() { Some(data) => append, None => break }
Loop ==
    /\ parser.pc = "loop"
    /\ parser.polled < MaxPolls
    /\ LET item == input(parser.input, parser.polled + 1)
       IN  parser' = IF item.tag = "Some"
                     THEN [parser EXCEPT !.polled = @ + 1,
                                         !.sheet = append_data(@, item.hint)]
                     ELSE [parser EXCEPT !.polled = @ + 1, !.pc = "data_done"]
    /\ UNCHANGED <<parent, computed, complete, run, first, failure, net, typed, call, returned>>

\* sheet.data_done()
DataDone ==
    /\ parser.pc = "data_done"
    /\ parser' = [parser EXCEPT !.sheet = data_done(@), !.pc = "return"]
    /\ UNCHANGED <<parent, computed, complete, run, first, failure, net, typed, call, returned>>

\* the sheet is the value of parse_stylesheet
Return ==
    /\ parser.pc = "return"
    /\ parser' = [parser EXCEPT !.result = parser.sheet, !.pc = "done"]
    /\ UNCHANGED <<parent, computed, complete, run, first, failure, net, typed, call, returned>>

\* parse_stylesheet(url, input) is entered
InitParser ==
    /\ parent = [n \in Nodes |-> n - 1]
    /\ computed = [n \in Nodes |-> NotSelected]
    /\ complete = [n \in Nodes |-> NoResult]
    /\ run = 1
    /\ first = [n \in Nodes |-> NoResult]
    /\ failure = "none"
    /\ net = Idle
    /\ typed = NotAsked
    /\ call = NoCall
    /\ returned = NotAsked
    /\ \E stream \in DataStreams :
        parser = [pc |-> "create", input |-> stream, polled |-> 0,
                  sheet |-> NoSheet, result |-> NoSheet]

NextParser ==
    \/ Create
    \/ Loop
    \/ DataDone
    \/ Return

\* the function runs on once it is entered
SpecParser == InitParser /\ [][NextParser]_vars /\ WF_vars(NextParser)

\* ------------------------------------------------------------------------
\* Properties
\* ------------------------------------------------------------------------

NonRoot == Nodes \ {Root}

Blue == rgba(0, 0, 255, Float(1, 1))

FontSizePx(n) == WithLength("CSSFontSizeLength", Px(Float(n, 1)))

\* r is x cut to the precision of css_fixed
WithinFixed(r, x) ==
    /\ FloatLe(r, x)
    /\ FloatLt(x, Float(r.num * CssFixedOne + r.den, r.den * CssFixedOne))

\* C1: a property whose computed value is Inherit in the child resolves to the
\* resolved value of the parent the child was composed against.
InheritAdoptsParent ==
    \A c \in NonRoot : \A p \in Props :
        (Resolved(c) /\ ComputedGet(computed[c], p) = Inherit)
            => CompleteGet(complete[c], p) = CompleteGet(complete[parent[c]], p)

InheritAdoptsParentWitness ==
    \E c \in NonRoot :
        /\ Resolved(c)
        /\ ComputedGet(computed[c], "background_color") = Inherit
        /\ CompleteGet(complete[parent[c]], "background_color") = Blue
        /\ CompleteGet(complete[c], "background_color") = Blue

\* C2: under a parent whose resolved font-size is an absolute length P, a child
\* font-size of e em resolves to P*e and one of p percent to P*p/100, as a
\* length in the parent's unit (to the precision of css_fixed).
RelativeFontSize ==
    \A c \in NonRoot :
        Resolved(c) =>
            LET pf == CompleteGet(complete[parent[c]], "font_size")
                cf == ComputedGet(computed[c], "font_size")
                rf == CompleteGet(complete[c], "font_size")
            IN  (pf.tag = "CSSFontSizeLength" /\ pf.len.tag \in {"Px", "Pt"} /\ cf.tag = "Specified")
                => /\ (cf.v.tag = "CSSFontSizeLength" /\ cf.v.len.tag = "Em")
                        => /\ rf.tag = "CSSFontSizeLength"
                           /\ rf.len.tag = pf.len.tag
                           /\ WithinFixed(rf.len.f, FloatMul(pf.len.f, cf.v.len.f))
                   /\ (cf.v.tag = "CSSFontSizePercentage")
                        => /\ rf.tag = "CSSFontSizeLength"
                           /\ rf.len.tag = pf.len.tag
                           /\ WithinFixed(rf.len.f, FloatDiv(FloatMul(pf.len.f, cf.v.f), 100))

RelativeFontSizeWitness ==
    \E c, d \in NonRoot :
        /\ Resolved(c) /\ Resolved(d)
        /\ parent[c] = parent[d]
        /\ CompleteGet(complete[parent[c]], "font_size") = FontSizePx(20)
        /\ ComputedGet(computed[c], "font_size")
                = Specified(WithFloat("CSSFontSizePercentage", Float(150, 1)))
        /\ CompleteGet(complete[c], "font_size") = FontSizePx(30)
        /\ ComputedGet(computed[d], "font_size")
                = Specified(WithLength("CSSFontSizeLength", Em(Float(2, 1))))
        /\ CompleteGet(complete[d], "font_size") = FontSizePx(40)

\* C3: no getter of a CompleteStyle ever meets an Inherit marker: the failure
\* of strip is unreachable.
StripNeverFails == failure # "unexpected 'inherit' value in complete style"

\* C4: at the root, every property whose computed value is Inherit resolves
\* to a concrete baseline default, 16px for font-size.
RootInheritGetsDefault ==
    Resolved(Root) =>
        \A p \in Props :
            ComputedGet(computed[Root], p) = Inherit
                => /\ ~IsFail(CompleteGet(complete[Root], p))
                   /\ p = "font_size" => CompleteGet(complete[Root], p) = FontSizePx(16)

\* the factor of a relative font-size: the em value, or the percentage over 100
RelativeFactor(cf) ==
    IF cf.v.tag = "CSSFontSizeLength" THEN cf.v.len.f ELSE FloatDiv(cf.v.f, 100)

IsRelative(cf) ==
    /\ cf.tag = "Specified"
    /\ \/ cf.v.tag = "CSSFontSizeLength" /\ cf.v.len.tag = "Em"
       \/ cf.v.tag = "CSSFontSizePercentage"

\* the node has no parent font size to resolve against
NoParentLength(n) ==
    \/ n = Root
    \/ /\ Resolved(parent[n])
       /\ FontSizeHint(complete[parent[n]].inner.font_size).tag # "CssHintLength"

\* C5: with no parent font size to resolve against, a Specified relative
\* font-size resolves to the baseline times its factor.
NoParentRelativeUsesBaseline ==
    \A n \in Nodes :
        (Resolved(n) /\ NoParentLength(n) /\ IsRelative(ComputedGet(computed[n], "font_size")))
            => CompleteGet(complete[n], "font_size")
                 = WithLength("CSSFontSizeLength",
                      Px(FloatMul(Float(16, 1),
                                  RelativeFactor(ComputedGet(computed[n], "font_size")))))

\* C6: the resolved font-size of every node is an absolute length, never an
\* em value or a percentage.
FontSizeAlwaysAbsolute ==
    \A n \in Nodes :
        Resolved(n) =>
            LET f == CompleteGet(complete[n], "font_size")
            IN  /\ f.tag # "CSSFontSizePercentage"
                /\ ~(f.tag = "CSSFontSizeLength" /\ f.len.tag = "Em")

ParentBeforeChild ==
    [][\A c \in NonRoot :
            (~Resolved(c) /\ complete'[c] # NoResult)
                => /\ Resolved(parent[c])
                   /\ complete'[parent[c]] = complete[parent[c]]]_vars

ParentBeforeChildWitness ==
    \E c \in NonRoot :
        /\ parent[c] # Root
        /\ Resolved(c)
        /\ Resolved(parent[c])
        /\ Resolved(Root)

\* C9: constructing the CompleteSelectResults of a node changes the
\* CompleteSelectResults of no other node: not its parent's, not a sibling's.
ResolvedStyleFrozen ==
    [][\A c \in Nodes :
            (~Resolved(c) /\ complete'[c] # NoResult)
                => \A n \in Nodes \ {c} : complete'[n] = complete[n]]_vars

ResolvedStyleFrozenWitness ==
    \E c \in NonRoot :
        /\ Resolved(c)
        /\ Resolved(parent[c])
        /\ complete[c] # complete[parent[c]]
        /\ \E d \in NonRoot \ {c} : Resolved(d) /\ parent[d] = parent[c]

\* the native values computed.rs has no typed value for
Unconvertible(family, value) ==
    \/ family = "display" /\ value.tag = "CssDisplayRunIn"
    \/ family = "text_align"
        /\ value.tag \in {"CssTextAlignInheritIfNonMagic", "CssTextAlignLibcssLeft",
                          "CssTextAlignLibcssCenter", "CssTextAlignLibcssRight"}
    \/ /\ family \in {"border_width", "margin", "padding", "width", "height",
                      "font_size", "line_height"}
       /\ "unit" \in DOMAIN value
       /\ \/ value.unit.tag \notin {"CssUnitPx", "CssUnitEm", "CssUnitPt", "CssUnitPct"}
          \/ family = "border_width" /\ value.unit.tag = "CssUnitPct"

\* C10 as stated: the conversion returns Inherit for the inherit sentinel and
\* Specified for every concrete native value.
ConvertTotalOnConcrete ==
    typed \notin {Pending, NotAsked} =>
        /\ net.value = InheritSentinel(net.family) => typed = Inherit
        /\ net.value # InheritSentinel(net.family) => typed.tag = "Specified"

\* C10 amended: the conversion returns Inherit exactly for the inherit
\* sentinel; a concrete native value gives Specified when it has a typed
\* value and a failure when it has none, never Inherit.
ConvertInheritExactly ==
    typed \notin {Pending, NotAsked} =>
        /\ typed = Inherit <=> net.value = InheritSentinel(net.family)
        /\ net.value # InheritSentinel(net.family)
            => IF Unconvertible(net.family, net.value)
               THEN IsFail(typed)
               ELSE typed.tag = "Specified"

ConvertInheritExactlyWitness ==
    /\ net = [family |-> "border_width",
              value |-> [tag |-> "CssBorderWidthWidth", unit |-> Unit("CssUnitPx", Fixed(10))]]
    /\ typed = Specified(WithLength("CSSBorderWidthLength", Px(Float(10, 1))))

\* the native values the claim of C11 lists: no CSS 2.1 equivalent
NoCss21Equivalent(family, value) ==
    \/ family = "display" /\ value.tag = "CssDisplayRunIn"
    \/ family = "text_align"
        /\ value.tag \in {"CssTextAlignInheritIfNonMagic", "CssTextAlignLibcssLeft",
                          "CssTextAlignLibcssCenter", "CssTextAlignLibcssRight"}
    \/ /\ "unit" \in DOMAIN value
       /\ value.unit.tag \notin {"CssUnitPx", "CssUnitEm", "CssUnitPt", "CssUnitPct"}

\* C11: converting a native value with no CSS 2.1 equivalent (display run-in,
\* text-align inherit-if-non-magic and libcss-left/center/right, a unit other
\* than px, em, pt or percent) fails with 'css unimplemented'; no typed value
\* is returned in its place.
UnimplementedFails ==
    (typed \notin {Pending, NotAsked} /\ NoCss21Equivalent(net.family, net.value))
        => /\ IsFail(typed)
           /\ typed.msg = "css unimplemented"

UnimplementedFailsWitness ==
    /\ net = [family |-> "display", value |-> N("CssDisplayRunIn")]
    /\ typed = unimpl("display: run-in")

\* the families whose dimension is a length or a percentage
LengthOrPercentFamilies == {"margin", "padding", "width", "height", "line_height", "font_size"}

\* the Length variant of a property family
LengthVariant(family) ==
    CASE family = "margin" -> "CSSMarginLength"
      [] family = "padding" -> "CSSPaddingLength"
      [] family = "width" -> "CSSWidthLength"
      [] family = "height" -> "CSSHeightLength"
      [] family = "line_height" -> "CSSLineHeightLength"
      [] family = "font_size" -> "CSSFontSizeLength"

\* the Percentage variant of a property family
PercentageVariant(family) ==
    CASE family = "margin" -> "CSSMarginPercentage"
      [] family = "padding" -> "CSSPaddingPercentage"
      [] family = "width" -> "CSSWidthPercentage"
      [] family = "height" -> "CSSHeightPercentage"
      [] family = "line_height" -> "CSSLineHeightPercentage"
      [] family = "font_size" -> "CSSFontSizePercentage"

\* the Length of the same unit and magnitude as a native px, em or pt
SameLength(unit) ==
    CASE unit.tag = "CssUnitPx" -> Px(Float(unit.v, CssFixedOne))
      [] unit.tag = "CssUnitEm" -> Em(Float(unit.v, CssFixedOne))
      [] unit.tag = "CssUnitPt" -> Pt(Float(unit.v, CssFixedOne))

\* C12: for margin, padding, width, height, line-height and font-size a
\* native dimension in px, em or pt converts to the property's Length variant
\* with the same unit and magnitude, a native percentage to the property's
\* Percentage variant holding that number; a border width in percent fails
\* with 'unexpected percentage unit'.
DimensionKeepsUnit ==
    (typed \notin {Pending, NotAsked} /\ "unit" \in DOMAIN net.value) =>
        LET unit == net.value.unit
        IN  /\ (net.family \in LengthOrPercentFamilies
                    /\ unit.tag \in {"CssUnitPx", "CssUnitEm", "CssUnitPt"})
                => typed = Specified(WithLength(LengthVariant(net.family), SameLength(unit)))
            /\ (net.family \in LengthOrPercentFamilies /\ unit.tag = "CssUnitPct")
                => typed = Specified(WithFloat(PercentageVariant(net.family),
                                               Float(unit.v, CssFixedOne)))
            /\ (net.family = "border_width" /\ unit.tag = "CssUnitPct")
                => typed = Fail("unexpected percentage unit")

DimensionKeepsUnitWitness ==
    /\ net = [family |-> "line_height",
              value |-> [tag |-> "CssLineHeightDimension", unit |-> Unit("CssUnitPt", Fixed(10))]]
    /\ typed = Specified(WithLength("CSSLineHeightLength", Pt(Float(10, 1))))

\* the generic family a native generic-family keyword stands for
GenericOf(tag) ==
    CASE tag = "CssFontFamilySerif" -> "Serif"
      [] tag = "CssFontFamilySansSerif" -> "SansSerif"
      [] tag = "CssFontFamilyCursive" -> "Cursive"
      [] tag = "CssFontFamilyFantasy" -> "Fantasy"
      [] tag = "CssFontFamilyMonospace" -> "Monospace"

\* C13: a native font-family list of n names converts to a Specified sequence
\* of exactly n entries whose i-th entry is the family name of the i-th
\* native name; a generic-family keyword converts to a one-element sequence
\* holding that generic family.
FontFamilyOrderKept ==
    (typed \notin {Pending, NotAsked} /\ net.family = "font_family") =>
        /\ net.value.tag = "CssFontFamilyValue"
            => /\ typed.tag = "Specified"
               /\ Len(typed.v) = Len(net.value.names)
               /\ \A i \in 1..Len(net.value.names) :
                    typed.v[i] = [tag |-> "CSSFontFamilyFamilyName",
                                  name |-> net.value.names[i]]
        /\ net.value.tag \notin {"CssFontFamilyValue", "CssFontFamilyInherit"}
            => /\ typed.tag = "Specified"
               /\ Len(typed.v) = 1
               /\ typed.v[1] = [tag |-> "CSSFontFamilyGenericFamily",
                                family |-> GenericOf(net.value.tag)]

FontFamilyOrderKeptWitness ==
    /\ net = [family |-> "font_family",
              value |-> [tag |-> "CssFontFamilyValue", names |-> <<"Wombat", "Jones">>]]
    /\ typed.tag = "Specified"
    /\ Len(typed.v) = 2
    /\ typed.v[1].name = "Wombat"
    /\ typed.v[2].name = "Jones"

\* the call has returned, or failed
Returned(fn) == call.fn = fn /\ returned # NotAsked

\* hue.to.rgb of the CSS3 color module, for a hue within one turn
Css3HueToRgb(m1, m2, h0) ==
    LET h == IF FloatLt(h0, Whole(0)) THEN FloatAdd(h0, Whole(1))
             ELSE IF FloatLt(Whole(1), h0) THEN FloatSub(h0, Whole(1))
             ELSE h0
    IN  IF FloatLt(FloatMul(h, Whole(6)), Whole(1))
        THEN FloatAdd(m1, FloatMul(FloatMul(FloatSub(m2, m1), h), Whole(6)))
        ELSE IF FloatLt(FloatMul(h, Whole(2)), Whole(1)) THEN m2
        ELSE IF FloatLt(FloatMul(h, Whole(3)), Whole(2))
        THEN FloatAdd(m1, FloatMul(FloatMul(FloatSub(m2, m1), FloatSub(Float(2, 3), h)),
                                   Whole(6)))
        ELSE m1

\* hsl to rgb of the CSS3 color module, each channel times 255 and rounded
Css3Hsla(h, s, l, a) ==
    LET m2 == IF FloatLe(l, Float(1, 2)) THEN FloatMul(l, FloatAdd(s, Whole(1)))
              ELSE FloatSub(FloatAdd(l, s), FloatMul(l, s))
        m1 == FloatSub(FloatMul(l, Whole(2)), m2)
        hh == FloatDiv(h, 360)
    IN  rgba(round(FloatMul(Whole(255), Css3HueToRgb(m1, m2, FloatAdd(hh, Float(1, 3))))),
             round(FloatMul(Whole(255), Css3HueToRgb(m1, m2, hh))),
             round(FloatMul(Whole(255), Css3HueToRgb(m1, m2, FloatSub(hh, Float(1, 3))))),
             a)

WithinTurn(h) == FloatLe(Whole(0), h) /\ FloatLe(h, Whole(360))

\* C14: for a hue in [0, 360] and saturation and lightness in [0, 1], hsl and
\* hsla give the color of the CSS3 HSL-to-RGB algorithm, each channel times
\* 255 and rounded to nearest: hsl(0,1,0.5) = rgb(255,0,0), hsl(120,1,0.5) =
\* rgb(0,255,0), hsl(240,1,0.5) = rgb(0,0,255), hsl(120,1,0.25) = rgb(0,128,0);
\* lightness 0 gives rgb(0,0,0) and lightness 1 rgb(255,255,255); hsl(h,s,l)
\* equals hsla(h,s,l,1.0).
HslFollowsCss3 ==
    (Returned("hsl") \/ Returned("hsla")) =>
        LET h == call.arg[1]
            s == call.arg[2]
            l == call.arg[3]
            a == IF call.fn = "hsla" THEN call.arg[4] ELSE Whole(1)
        IN  /\ WithinTurn(h) => returned = Css3Hsla(h, s, l, a)
            /\ (h = Whole(0) /\ s = Whole(1) /\ l = Float(1, 2)) => returned = rgba(255, 0, 0, a)
            /\ (h = Whole(120) /\ s = Whole(1) /\ l = Float(1, 2)) => returned = rgba(0, 255, 0, a)
            /\ (h = Whole(240) /\ s = Whole(1) /\ l = Float(1, 2)) => returned = rgba(0, 0, 255, a)
            /\ (h = Whole(120) /\ s = Whole(1) /\ l = Float(1, 4)) => returned = rgba(0, 128, 0, a)
            /\ (WithinTurn(h) /\ l = Whole(0)) => returned = rgba(0, 0, 0, a)
            /\ (WithinTurn(h) /\ l = Whole(1)) => returned = rgba(255, 255, 255, a)
            /\ call.fn = "hsl" => returned = hsla(h, s, l, Whole(1))

HslFollowsCss3Witness ==
    /\ call = [fn |-> "hsl", arg |-> <<Whole(120), Whole(1), Float(1, 4)>>]
    /\ returned = rgb(0, 128, 0)

\* the string is written in one of the functional notations
Functional(color) ==
    \E prefix \in {"rgb(", "rgba(", "hsl(", "hsla("} : starts_with(color, prefix)

NamedColorsComplete ==
    Returned("parse_color") =>
        \A e \in css_colors : call.arg = e.name => returned = Some(e.color)

\* the prefix of a functional notation
PrefixOf(color) ==
    CHOOSE prefix \in {"rgb(", "rgba(", "hsl(", "hsla("} : starts_with(color, prefix)

\* the comma-separated components between the prefix and the last character
Components(color) ==
    split_iter(SubSeq(color, Len(PrefixOf(color)) + 1, Len(color) - 1), ",")

\* the number of components a functional notation takes
Arity(prefix) == IF prefix \in {"rgb(", "hsl("} THEN 3 ELSE 4

\* the components as numbers of the type the notation takes at each place
Numbers(prefix, components) ==
    [i \in 1..Len(components) |->
        IF prefix \in {"rgb(", "rgba("} /\ i <= 3 THEN from_str_u8(components[i])
        ELSE from_str_float(components[i])]

\* the constructor of a functional notation on its parsed components
Constructor(prefix, n) ==
    CASE prefix = "rgb(" -> rgb(n[1].hint, n[2].hint, n[3].hint)
      [] prefix = "rgba(" -> rgba(n[1].hint, n[2].hint, n[3].hint, n[4].hint)
      [] prefix = "hsl(" -> hsl(n[1].hint, n[2].hint, n[3].hint)
      [] prefix = "hsla(" -> hsla(n[1].hint, n[2].hint, n[3].hint, n[4].hint)

\* C17: for a string with one of the prefixes rgb(, rgba(, hsl(, hsla(,
\* parse_color returns none when the number of comma-separated components is
\* not 3, 4, 3, 4 or a component fails to parse as its numeric type, and the
\* result of the matching constructor on the parsed components otherwise;
\* "rbga(1,2,3)" is taken for a keyword and yields none.
FunctionalNotationParsed ==
    Returned("parse_color") =>
        /\ Functional(call.arg) =>
            LET prefix == PrefixOf(call.arg)
                components == Components(call.arg)
                n == Numbers(prefix, components)
            IN  IF Len(components) # Arity(prefix) \/ \E i \in 1..Len(components) : n[i] = None
                THEN returned = None
                ELSE returned = Some(Constructor(prefix, n))
        /\ call.arg = "rbga(1,2,3)" => returned = None

RECURSIVE trim(_)
\* the string without its leading and trailing spaces
trim(s) ==
    IF s = "" THEN s
    ELSE IF Head(s) = " " THEN trim(Tail(s))
    ELSE IF Char(s, Len(s)) = " " THEN trim(SubSeq(s, 1, Len(s) - 1))
    ELSE s

\* the functional notation with every component trimmed
Trimmed(color) ==
    LET components == Components(color)
        Joined[i \in 1..Len(components)] ==
            IF i = 1 THEN trim(components[1])
            ELSE Joined[i - 1] \o "," \o trim(components[i])
    IN  PrefixOf(color) \o Joined[Len(components)] \o Char(color, Len(color))

\* C18: in functional notation each component is trimmed before it is parsed
\* as a number: parse_color gives a string the result it gives the string
\* with every component trimmed, parse_color("rgb( 1 , 2 , 3 )") that of
\* parse_color("rgb(1,2,3)").
ComponentsTrimmed ==
    Returned("parse_color") =>
        /\ (Functional(call.arg) /\ Len(call.arg) > Len(PrefixOf(call.arg)))
            => returned = parse_color(Trimmed(call.arg))
        /\ call.arg = "rgb( 1 , 2 , 3 )" => returned = parse_color("rgb(1,2,3)")

\* C19: for every input string parse_color returns a color or none; it never
\* fails, not for a bare functional prefix ("rgb("), not for a hue far outside
\* 0..360.
ParseColorNeverFails ==
    Returned("parse_color") => (returned = None \/ returned.tag = "Some")

\* C20: Length::abs returns the stored number of a px length and fails for an
\* em length; it never returns the number of an Em value.
AbsOnlyOfAbsolute ==
    Returned("abs") =>
        /\ call.arg.tag = "Px" => returned = call.arg.f
        /\ call.arg.tag = "Em" => (Failed(returned) /\ returned # call.arg.f)

\* C21: equality on CSSValue is structural: Inherit equals Inherit,
\* Specified(a) equals Specified(b) exactly when a equals b, Inherit never
\* equals Specified(x) in either argument order, and ne is the negation of eq.
CSSValueEqStructural ==
    Returned("eq") =>
        LET a == call.arg[1]
            b == call.arg[2]
        IN  /\ (a = Inherit /\ b = Inherit) => returned.eq
            /\ (a.tag = "Specified" /\ b.tag = "Specified") => (returned.eq <=> a.v = b.v)
            /\ a.tag # b.tag => (~returned.eq /\ ~returned.flipped)
            /\ returned.ne <=> ~returned.eq

CSSValueEqStructuralWitness ==
    /\ call = [fn |-> "eq", arg |-> <<Specified(Px(Whole(10))), Specified(Em(Whole(2)))>>]
    /\ returned = [tag |-> "Compared", eq |-> FALSE, flipped |-> FALSE, ne |-> TRUE]

\* the hue brought into [0, 360) by whole turns
NormalizedHue(h) == Float(h.num % (360 * h.den), h.den)

\* C26: the result of hsl and hsla is periodic in the hue: for every hue,
\* negative or 360 and above included, the call returns the color of the
\* hue brought into [0, 360) and does not fail with 'unexpected hue value'.
HuePeriodic ==
    (Returned("hsl") \/ Returned("hsla")) =>
        /\ ~IsFail(returned)
        /\ returned = hsla(NormalizedHue(call.arg[1]), call.arg[2], call.arg[3],
                           IF call.fn = "hsla" THEN call.arg[4] ELSE Whole(1))

\* no length of the parent is at hand to resolve the child's hint against
NoLengthAtHand(parent_hint, child) ==
    \/ child.tag # "CssHintLength"
    \/ /\ child.unit.tag \in {"CssUnitEm", "CssUnitPct"}
       /\ ~(parent_hint.tag = "Some" /\ parent_hint.hint.tag = "CssHintLength")

\* C27: every path that supplies a font size when no parent length is at hand
\* returns one and the same baseline, 16px: every fallback branch of the
\* callback of complete.rs, and the callback of inherit.rs.
SingleBaseline ==
    (Returned("compute_font_size") /\ NoLengthAtHand(call.arg[1], call.arg[2])) =>
        /\ returned.complete = CssHintLength(Unit("CssUnitPx", Fixed(16)))
        /\ returned.inherit = returned.complete

\* C28: a string that starts with rgb(, rgba(, hsl( or hsla( and whose last
\* character is not ")" yields none whenever parse_color returns, never a
\* color made of the text with its last character removed.
ClosingParenRequired ==
    (Returned("parse_color") /\ Functional(call.arg) /\ ~Failed(returned)
        /\ Char(call.arg, Len(call.arg)) # ")") => returned = None

\* C22: for a non-root node, a Specified value that is not relative passes
\* through resolution unchanged: every property other than font-size, and a
\* font-size given as an absolute length or as a size keyword.
SpecifiedAbsoluteUnchanged ==
    \A c \in NonRoot : \A p \in Props :
        Resolved(c) =>
            LET cv == ComputedGet(computed[c], p)
            IN  (cv.tag = "Specified" /\ ~IsRelative(cv))
                    => CompleteGet(complete[c], p) = cv.v

\* C23: the resolved font-size is a function of the parent's resolved
\* font-size and the child's font-size hint alone: two nodes that agree on
\* both have the same resolved font-size, whatever else differs.
FontSizeOnlyOfParentAndHint ==
    \A c, d \in NonRoot :
        (/\ Resolved(c) /\ Resolved(d)
         /\ complete[parent[c]].inner.font_size = complete[parent[d]].inner.font_size
         /\ computed[c].font_size = computed[d].font_size)
            => complete[c].inner.font_size = complete[d].inner.font_size

FontSizeOnlyOfParentAndHintWitness ==
    \E c, d \in NonRoot :
        /\ Resolved(c) /\ Resolved(d)
        /\ CompleteGet(complete[parent[c]], "font_size") = FontSizePx(20)
        /\ CompleteGet(complete[parent[d]], "font_size") = FontSizePx(20)
        /\ IsRelative(ComputedGet(computed[c], "font_size"))
        /\ computed[c].font_size = computed[d].font_size
        /\ computed[c].background_color # computed[d].background_color
        /\ complete[c].inner.background_color # complete[d].inner.background_color
        /\ CompleteGet(complete[c], "font_size") = CompleteGet(complete[d], "font_size")

\* the node and its ancestors below the root all give their font-size in em
RECURSIVE EmChain(_)
EmChain(n) ==
    \/ n = Root
    \/ /\ computed[n] # NotSelected
       /\ computed[n].font_size.tag = "CssFontSizeDimension"
       /\ computed[n].font_size.unit.tag = "CssUnitEm"
       /\ EmChain(parent[n])

\* the product of the em factors from the root down to the node
RECURSIVE ChainFactor(_)
ChainFactor(n) ==
    IF n = Root THEN Whole(1)
    ELSE FloatMul(css_fixed_to_float(computed[n].font_size.unit.v), ChainFactor(parent[n]))

\* C30: in a chain resolved root-first whose root has an absolute font-size P
\* and whose descendants give theirs in em, node k resolves to
\* P*e_1*...*e_k in the root's unit (to the precision of css_fixed).
EmChainMultiplies ==
    \A k \in NonRoot :
        LET rf == ComputedGet(computed[Root], "font_size")
            kf == CompleteGet(complete[k], "font_size")
        IN  (/\ Resolved(k)
             /\ rf.tag = "Specified" /\ rf.v.tag = "CSSFontSizeLength"
             /\ rf.v.len.tag \in {"Px", "Pt"}
             /\ EmChain(k))
                => /\ kf.tag = "CSSFontSizeLength"
                   /\ kf.len.tag = rf.v.len.tag
                   /\ WithinFixed(kf.len.f, FloatMul(rf.v.len.f, ChainFactor(k)))

EmChainMultipliesWitness ==
    \E k \in NonRoot :
        /\ parent[k] # Root
        /\ Resolved(k)
        /\ EmChain(k)
        /\ ComputedGet(computed[Root], "font_size") = Specified(FontSizePx(20))
        /\ CompleteGet(complete[parent[k]], "font_size") = FontSizePx(40)
        /\ CompleteGet(complete[k], "font_size") = FontSizePx(80)

\* C24: within each family the adapter maps the native concrete values one to
\* one: no two different native values of a family convert to the same
\* Specified value, the text-align values default and left included.
ConvertOneToOne ==
    typed.tag = "Specified" =>
        \A other \in NativeValues(net.family) :
            other # net.value => ConvertNet(net.family, other) # typed

\* the two native text-align values the adapter converts to Left
TextAlignLeftPair == {N("CssTextAlignDefault"), N("CssTextAlignLeft")}

\* C24, amended: two different native values of a family convert to the same
\* Specified value only when they are the text-align values default and
\* left, which both convert to Left.
ConvertOneToOneButDefault ==
    typed.tag = "Specified" =>
        \A other \in NativeValues(net.family) :
            (other # net.value /\ ConvertNet(net.family, other) = typed)
                => /\ net.family = "text_align"
                   /\ {other, net.value} = TextAlignLeftPair

ConvertOneToOneButDefaultWitness ==
    /\ net = [family |-> "text_align", value |-> N("CssTextAlignDefault")]
    /\ typed = Specified(K("CSSTextAlignLeft"))
    /\ ConvertNet("text_align", N("CssTextAlignLeft")) = typed

\* C25: an unimplemented property mapping met on one node is fatal to that
\* node only: after the failure every other node whose parent is resolved can
\* still be resolved.
UnimplementedFatalToNodeOnly ==
    failure = "css unimplemented" =>
        \A n \in NonRoot :
            (~Resolved(n) /\ Resolved(parent[n])) => ENABLED NewFromParent(n)

\* the stream yields None at some call
YieldsNone(stream) ==
    \/ \E i \in 1..Len(stream.items) : stream.items[i] = None
    \/ stream.rest = "none"

\* the call of the stream that yields its first None
FirstNone(stream) ==
    IF \E i \in 1..Len(stream.items) : stream.items[i] = None
    THEN CHOOSE i \in 1..Len(stream.items) :
            /\ stream.items[i] = None
            /\ \A j \in 1..(i - 1) : stream.items[j] # None
    ELSE Len(stream.items) + 1

\* the chunks the stream yields before its first None, in order
BeforeNone(stream) == [i \in 1..(FirstNone(stream) - 1) |-> input(stream, i).hint]

\* C29: parse_stylesheet creates the sheet, appends every chunk the stream
\* yields before its first None, in order, calls data_done exactly once and
\* after the last append, never polls the stream after the first None, and
\* returns that sheet; it terminates exactly when the stream yields None.
ParseStylesheetProtocol ==
    /\ [](parser.pc = "done" =>
            /\ YieldsNone(parser.input)
            /\ parser.polled = FirstNone(parser.input)
            /\ parser.result = [data |-> BeforeNone(parser.input), data_done |-> 1]
            /\ parser.result = parser.sheet)
    /\ [](parser.pc = "loop" =>
            /\ parser.sheet.data_done = 0
            /\ parser.sheet.data = [i \in 1..parser.polled |-> input(parser.input, i).hint])
    /\ [][parser.pc \in {"data_done", "return", "done"} =>
            /\ parser'.polled = parser.polled
            /\ parser'.sheet.data = parser.sheet.data
            /\ parser'.sheet.data_done = 1]_vars
    /\ (YieldsNone(parser.input) ~> parser.pc = "done")

ParseStylesheetProtocolWitness ==
    /\ parser.pc = "done"
    /\ parser.input = [items |-> <<Some("a"), Some("b"), None>>, rest |-> "data"]
    /\ parser.polled = 3
    /\ parser.result = [data |-> <<"a", "b">>, data_done |-> 1]

====
